---- MODULE Spec2Model ----
(***************************************************************************)
(* Interview session state machine (interview_app/session_state.py) and    *)
(* the orchestration branches of app.py that drive it.                     *)
(*                                                                         *)
(* Python values are modelled as follows.                                  *)
(*   - An optional value (X | None) is a sequence of length at most one:   *)
(*     None is << >> and a present value x is << x >>.                     *)
(*   - A pydantic model and its model_dump() dict are the same record: the *)
(*     dicts held in the state are only ever produced by model_dump() of a *)
(*     validated model, so model_validate(model_dump(m)) yields m.         *)
(*   - state.get(k) of a key that new_interview_state() does not create is *)
(*     None, so an absent key and a key holding None are the same value.   *)
(***************************************************************************)
EXTENDS Integers, Sequences, FiniteSets, TLC

None == << >>
Some(x) == << x >>
Get(o) == o[1]

\* Python truthiness as used by `not x` and `x or y`: None is falsy, and so
\* are the empty string and the integer 0.  A model_dump() dict always has
\* keys, so an optional dict is truthy exactly when it is present.
TruthyDict(o) == o /= None
TruthyStr(o) == o /= None /\ Get(o) /= ""
TruthyInt(o) == o /= None /\ Get(o) /= 0

(***************************************************************************)
(* Skill and tag strings are sequences of characters, so that strip(),     *)
(* lower() and split() are computed rather than assumed.                   *)
(***************************************************************************)
\* str.isspace() on one character: blank and tab stand for the whitespace class.
IsSpace(c) == c \in {" ", "\t"}

LowerChar(c) == CASE c = "P" -> "p"
                  [] c = "S" -> "s"
                  [] OTHER -> c

\* str.lower()
lower(str) == [ i \in 1..Len(str) |-> LowerChar(str[i]) ]

RECURSIVE lstrip(_)
lstrip(str) == IF str /= << >> /\ IsSpace(Head(str)) THEN lstrip(Tail(str)) ELSE str

RECURSIVE rstrip(_)
rstrip(str) ==
    IF str /= << >> /\ IsSpace(str[Len(str)])
    THEN rstrip(SubSeq(str, 1, Len(str) - 1))
    ELSE str

\* str.strip()
strip(str) == rstrip(lstrip(str))

\* str.split(): the maximal runs of non-whitespace characters, in order.
RECURSIVE SplitFrom(_, _, _)
SplitFrom(str, word, words) ==
    IF str = << >>
    THEN IF word = << >> THEN words ELSE Append(words, word)
    ELSE IF IsSpace(Head(str))
         THEN SplitFrom(Tail(str), << >>, IF word = << >> THEN words ELSE Append(words, word))
         ELSE SplitFrom(Tail(str), Append(word, Head(str)), words)

split(str) == SplitFrom(str, << >>, << >>)

\* " ".join(words)
RECURSIVE join(_)
join(words) ==
    IF words = << >> THEN << >>
    ELSE IF Len(words) = 1 THEN words[1]
    ELSE words[1] \o << " " >> \o join(Tail(words))

\* Mutant: lowercases and drops at most one whitespace character per end.
_normalize_token_StripsOnce(value) ==
    LET low == lower(value)
        left == IF low /= << >> /\ IsSpace(Head(low)) THEN Tail(low) ELSE low
    IN IF left /= << >> /\ IsSpace(left[Len(left)])
       THEN SubSeq(left, 1, Len(left) - 1)
       ELSE left

\* skill_coverage._normalize_token
_normalize_token(value) == join(split(lower(strip(value))))

(***************************************************************************)
(* Bounds of the model.                                                    *)
(***************************************************************************)
MaxTurns == 2

\* Longest string handed to _normalize_token on its own.
MaxLen == 3

\* Largest count in a coverage map handed to pick_next_focus_skill on its own.
MaxCount == 1

(***************************************************************************)
(* Value domains.                                                          *)
(***************************************************************************)
\* InterviewQuestion (schemas.py): question text and tags; category,
\* difficulty and what_good_looks_like never influence a transition.
Question(text, tags) == [question_text |-> text, tags |-> tags]

\* Skill and tag strings used by the model.
Python == << "P", "y" >>
python == << "p", "y" >>
Sql == << "S", "q" >>

Questions == { Question("Q1", << python >>), Question("Q2", << Sql >>) }

OptQuestions == { None } \cup { Some(q) : q \in Questions }

\* ScoreCard (schemas.py): the two sub-scores that are persisted.
ScoreCards == { [correctness |-> 3, role_relevance |-> 3],
                [correctness |-> 5, role_relevance |-> 1] }

UNCERTAINTY_DISCLAIMER == "This is probabilistic coaching, not truth."

\* FallacyHint (schemas.py).
FallacyHints == { [hint_level |-> "none", possible_fallacies |-> << >>,
                   more_info_text |-> UNCERTAINTY_DISCLAIMER],
                  [hint_level |-> "light", possible_fallacies |-> << "false_cause" >>,
                   more_info_text |-> UNCERTAINTY_DISCLAIMER] }

OptFallacyHints == { None } \cup { Some(h) : h \in FallacyHints }

\* More-info texts a caller or the language model can supply.
MoreInfoTexts ==
    { "", "No disclaimer here.", UNCERTAINTY_DISCLAIMER,
      "Check the premise.\n" \o UNCERTAINTY_DISCLAIMER }

\* UNCERTAINTY_DISCLAIMER in value, over the texts of MoreInfoTexts.
IncludesDisclaimer(value) ==
    value \in { UNCERTAINTY_DISCLAIMER, "Check the premise.\n" \o UNCERTAINTY_DISCLAIMER }

\* FallacyHint(**fields) and FallacyHint.model_validate(fields), where a
\* field of `fields` is None when it is not supplied.  A field that is not
\* supplied takes its default, and the field validator of more_info_text
\* runs on supplied values only (the model does not set validate_default).
FallacyHint(fields) ==
    IF fields.more_info_text /= None /\ ~IncludesDisclaimer(Get(fields.more_info_text))
    THEN [ value |-> None, raised |-> "ValidationError" ]
    ELSE [ value |-> Some([ hint_level |-> IF fields.hint_level = None THEN "none"
                                           ELSE Get(fields.hint_level),
                            possible_fallacies |->
                                IF fields.possible_fallacies = None THEN << >>
                                ELSE Get(fields.possible_fallacies),
                            more_info_text |-> IF fields.more_info_text = None THEN ""
                                               ELSE Get(fields.more_info_text) ]),
           raised |-> "none" ]

\* Field sets from which a FallacyHint is built: every combination of a
\* supplied or omitted hint level, fallacy list and more-info text.
HintFields ==
    { [ hint_level |-> l, possible_fallacies |-> f, more_info_text |-> m ] :
        l \in { None, Some("light") },
        f \in { None, Some(<< "false_cause" >>) },
        m \in { None } \cup { Some(t) : t \in MoreInfoTexts } }

\* judge_answer_for_fallacies: the language model's JSON is validated as a
\* FallacyHint and returned as it is; None stands for a raised exception.
judge_answer_for_fallacies(llm_fields) ==
    LET validated == FallacyHint(llm_fields)
    IN IF validated.raised = "none" THEN validated.value ELSE None

\* What the language model answers to the judge's request: a light hint
\* with the disclaimer, with another text, and without a more-info text.
LlmHints ==
    { [ hint_level |-> Some("light"), possible_fallacies |-> Some(<< "false_cause" >>),
        more_info_text |-> m ] :
        m \in { Some(UNCERTAINTY_DISCLAIMER), Some("No disclaimer here."), None } }

Answers == { "A1", "A2" }

\* The (answer, scorecard, fallacy_hint) triples a caller hands to submit_answer.
SubmitArgs == { [answer |-> "A1", scorecard |-> [correctness |-> 3, role_relevance |-> 3],
                 fallacy_hint |-> None],
                [answer |-> "A2", scorecard |-> [correctness |-> 5, role_relevance |-> 1],
                 fallacy_hint |-> Some([hint_level |-> "light",
                                        possible_fallacies |-> << "false_cause" >>,
                                        more_info_text |-> UNCERTAINTY_DISCLAIMER])] }

\* Durable question id / order pairs a caller may hand to start_interview.
QuestionKeys == { [id |-> None, order |-> None],
                  [id |-> Some(7), order |-> Some(1)],
                  [id |-> Some(8), order |-> Some(2)] }

\* Values a caller stores under the keys that reset_interview() keeps
\* (test_state_machine.py writes job_description and prompt_mode this way).
InputBundles ==
    { [ job_description |-> "JD", prompt_mode |-> "friendly",
        cv_text |-> Some("cv-a"), cv_file_hash |-> Some("c1"),
        profile |-> Some([target_role |-> Some("Backend Engineer")]),
        jd_text |-> Some("jd-a"), jd_file_hash |-> Some("j1"),
        position_title |-> Some("Backend Engineer"),
        vacancy_id |-> Some(1), user_vacancy_id |-> Some(1) ],
      [ job_description |-> "JD2", prompt_mode |-> "strict",
        cv_text |-> Some("cv-b"), cv_file_hash |-> Some("c2"),
        profile |-> Some([target_role |-> None]),
        jd_text |-> Some("jd-b"), jd_file_hash |-> Some("j2"),
        position_title |-> Some("Data Analyst"),
        vacancy_id |-> Some(2), user_vacancy_id |-> Some(2) ] }

\* state: the session state dict (st.session_state in the app);
\* call:  the last operation, its arguments and the exception it ended with;
\* db:    the persisted rows (db.py);
\* session_top_skills: st.session_state["top_skills"].
VARIABLES state, call, db, session_top_skills

vars == << state, call, db, session_top_skills >>

(***************************************************************************)
(* session_state.py                                                        *)
(***************************************************************************)
\* The nine keys new_interview_state() creates.
InterviewKeys == { "job_description", "prompt_mode", "interview_started",
                   "current_question", "current_question_id",
                   "current_question_order", "last_scorecard",
                   "last_fallacy_hint", "transcript" }

\* The keys reset_interview() reads with state.get() and writes back.
KeptKeys == { "job_description", "prompt_mode", "cv_text", "cv_file_hash",
              "profile", "jd_text", "jd_file_hash", "position_title",
              "vacancy_id", "user_vacancy_id" }

new_interview_state ==
    [ job_description        |-> "",
      prompt_mode            |-> "default",
      interview_started      |-> FALSE,
      current_question       |-> None,
      current_question_id    |-> None,
      current_question_order |-> None,
      last_scorecard         |-> None,
      last_fallacy_hint      |-> None,
      transcript             |-> << >> ]

\* Keys outside new_interview_state(): absent, i.e. None through state.get().
AbsentKeys ==
    [ cv_text |-> None, cv_file_hash |-> None, profile |-> None,
      jd_text |-> None, jd_file_hash |-> None, position_title |-> None,
      vacancy_id |-> None, user_vacancy_id |-> None ]

\* Record union: the fields of r, and those of d that r lacks.
Merge(r, d) ==
    [ k \in (DOMAIN r) \cup (DOMAIN d) |-> IF k \in DOMAIN r THEN r[k] ELSE d[k] ]

\* Outcome of a call: the state it leaves behind and the exception raised.
Returned(s) == [state |-> s, raised |-> "none"]
Raised(s, exc) == [state |-> s, raised |-> exc]

\* Mutant: assigns a fresh transcript instead of setdefault().
start_interview_ClearsTranscript(s, first_question, question_id, question_order) ==
    Returned([ s EXCEPT !.interview_started      = TRUE,
                        !.current_question       = Some(first_question),
                        !.current_question_id    = question_id,
                        !.current_question_order = question_order,
                        !.last_scorecard         = None,
                        !.last_fallacy_hint      = None,
                        !.transcript             = << >> ])

\* Mutant: leaves the last-turn caches as they were.
start_interview_KeepsCaches(s, first_question, question_id, question_order) ==
    Returned([ s EXCEPT !.interview_started      = TRUE,
                        !.current_question       = Some(first_question),
                        !.current_question_id    = question_id,
                        !.current_question_order = question_order ])

start_interview(s, first_question, question_id, question_order) ==
    Returned([ s EXCEPT !.interview_started      = TRUE,
                        !.current_question       = Some(first_question),
                        !.current_question_id    = question_id,
                        !.current_question_order = question_order,
                        !.last_scorecard         = None,
                        !.last_fallacy_hint      = None ])

\* Mutant: the appended turn does not carry the fallacy hint.
AnsweredTurn_DropsHint(s, q, answer, scorecard, fallacy_hint) ==
    [ question_id    |-> s.current_question_id,
      question_order |-> s.current_question_order,
      question       |-> q,
      answer         |-> answer,
      scorecard      |-> Some(scorecard),
      fallacy_hint   |-> None,
      is_skipped     |-> FALSE ]

\* The turn submit_answer appends for question q.
AnsweredTurn(s, q, answer, scorecard, fallacy_hint) ==
    [ question_id    |-> s.current_question_id,
      question_order |-> s.current_question_order,
      question       |-> q,
      answer         |-> answer,
      scorecard      |-> Some(scorecard),
      fallacy_hint   |-> fallacy_hint,
      is_skipped     |-> FALSE ]

\* Mutant: updates the last-turn cache before the live-question check.
submit_answer_ChecksLate(s, answer, scorecard, next_question, fallacy_hint) ==
    IF ~TruthyDict(s.current_question)
    THEN Raised([ s EXCEPT !.last_scorecard = Some(scorecard) ], "ValueError")
    ELSE Returned([ s EXCEPT !.transcript = Append(s.transcript,
                                 AnsweredTurn(s, Get(s.current_question), answer, scorecard, fallacy_hint)),
                             !.last_scorecard         = Some(scorecard),
                             !.last_fallacy_hint      = fallacy_hint,
                             !.current_question       = next_question,
                             !.current_question_id    = None,
                             !.current_question_order = None ])

\* Mutant: the appended turn snapshots next_question when one is given.
submit_answer_SnapshotsNext(s, answer, scorecard, next_question, fallacy_hint) ==
    IF ~TruthyDict(s.current_question)
    THEN Raised(s, "ValueError")
    ELSE Returned([ s EXCEPT !.transcript = Append(s.transcript,
                                 AnsweredTurn(s, IF next_question /= None
                                                 THEN Get(next_question)
                                                 ELSE Get(s.current_question),
                                              answer, scorecard, fallacy_hint)),
                             !.last_scorecard         = Some(scorecard),
                             !.last_fallacy_hint      = fallacy_hint,
                             !.current_question       = next_question,
                             !.current_question_id    = None,
                             !.current_question_order = None ])

\* Mutant: keeps the live question when next_question is None.
submit_answer_KeepsQuestionOnNone(s, answer, scorecard, next_question, fallacy_hint) ==
    IF ~TruthyDict(s.current_question)
    THEN Raised(s, "ValueError")
    ELSE Returned([ s EXCEPT !.transcript = Append(s.transcript,
                                 AnsweredTurn(s, Get(s.current_question), answer, scorecard, fallacy_hint)),
                             !.last_scorecard         = Some(scorecard),
                             !.last_fallacy_hint      = fallacy_hint,
                             !.current_question       = IF next_question /= None
                                                        THEN next_question
                                                        ELSE s.current_question,
                             !.current_question_id    = None,
                             !.current_question_order = None ])

submit_answer(s, answer, scorecard, next_question, fallacy_hint) ==
    IF ~TruthyDict(s.current_question)
    THEN Raised(s, "ValueError")
    ELSE LET question == Get(s.current_question)
             turn == AnsweredTurn(s, question, answer, scorecard, fallacy_hint)
         IN Returned([ s EXCEPT !.transcript             = Append(s.transcript, turn),
                                !.last_scorecard         = Some(scorecard),
                                !.last_fallacy_hint      = fallacy_hint,
                                !.current_question       = next_question,
                                !.current_question_id    = None,
                                !.current_question_order = None ])

\* Mutant: numbers the turn by its position instead of the held order.
SkippedTurn_CountsPosition(s, q) ==
    [ question_id    |-> s.current_question_id,
      question_order |-> Some(Len(s.transcript) + 1),
      question       |-> q,
      answer         |-> "",
      scorecard      |-> None,
      fallacy_hint   |-> None,
      is_skipped     |-> TRUE ]

\* Mutant: the skipped turn carries the fallacy hint of the last-turn cache.
SkippedTurn_KeepsLastHint(s, q) ==
    [ question_id    |-> s.current_question_id,
      question_order |-> s.current_question_order,
      question       |-> q,
      answer         |-> "",
      scorecard      |-> None,
      fallacy_hint   |-> s.last_fallacy_hint,
      is_skipped     |-> TRUE ]

\* The turn skip_question appends for question q.
SkippedTurn(s, q) ==
    [ question_id    |-> s.current_question_id,
      question_order |-> s.current_question_order,
      question       |-> q,
      answer         |-> "",
      scorecard      |-> None,
      fallacy_hint   |-> None,
      is_skipped     |-> TRUE ]

\* Mutant: leaves the last-turn caches as they were.
skip_question_KeepsCaches(s, next_question) ==
    IF ~TruthyDict(s.current_question)
    THEN Raised(s, "ValueError")
    ELSE Returned([ s EXCEPT !.transcript = Append(s.transcript,
                                 SkippedTurn(s, Get(s.current_question))),
                             !.current_question       = next_question,
                             !.current_question_id    = None,
                             !.current_question_order = None ])

\* Mutant: overwrites the last recorded turn instead of appending.
skip_question_ReplacesLast(s, next_question) ==
    IF ~TruthyDict(s.current_question)
    THEN Raised(s, "ValueError")
    ELSE LET turn == SkippedTurn(s, Get(s.current_question))
         IN Returned([ s EXCEPT !.transcript = IF s.transcript = << >>
                                               THEN << turn >>
                                               ELSE [ s.transcript EXCEPT ![Len(s.transcript)] = turn ],
                                !.last_scorecard         = None,
                                !.last_fallacy_hint      = None,
                                !.current_question       = next_question,
                                !.current_question_id    = None,
                                !.current_question_order = None ])

skip_question(s, next_question) ==
    IF ~TruthyDict(s.current_question)
    THEN Raised(s, "ValueError")
    ELSE LET question == Get(s.current_question)
             turn == SkippedTurn(s, question)
         IN Returned([ s EXCEPT !.transcript             = Append(s.transcript, turn),
                                !.last_scorecard         = None,
                                !.last_fallacy_hint      = None,
                                !.current_question       = next_question,
                                !.current_question_id    = None,
                                !.current_question_order = None ])

\* Mutant: resets the live question but not the transcript.
reset_interview_KeepsTranscript(s) ==
    LET defaults == new_interview_state
    IN Returned([ k \in DOMAIN s |->
                    IF k \in (DOMAIN defaults) \ (KeptKeys \cup {"transcript"})
                    THEN defaults[k] ELSE s[k] ])

\* Mutant: writes back only prompt_mode and job_description.
reset_interview_KeepsTwo(s) ==
    LET defaults == new_interview_state
    IN Returned([ k \in DOMAIN s |->
                    IF k \in {"prompt_mode", "job_description"} THEN s[k]
                    ELSE IF k \in DOMAIN defaults THEN defaults[k]
                    ELSE None ])

\* Mutant: writes current_question_id back as if it were a kept key.
reset_interview_KeepsQuestionId(s) ==
    LET keep == [ k \in KeptKeys \cup {"current_question_id"} |-> s[k] ]
        defaults == new_interview_state
        cleared == [ k \in DOMAIN s |-> IF k \in DOMAIN defaults THEN defaults[k] ELSE s[k] ]
    IN Returned([ k \in DOMAIN s |-> IF k \in DOMAIN keep THEN keep[k] ELSE cleared[k] ])

reset_interview(s) ==
    LET keep == [ k \in KeptKeys |-> s[k] ]
        defaults == new_interview_state
        cleared == [ k \in DOMAIN s |-> IF k \in DOMAIN defaults THEN defaults[k] ELSE s[k] ]
    IN Returned([ k \in DOMAIN s |-> IF k \in KeptKeys THEN keep[k] ELSE cleared[k] ])

(***************************************************************************)
(* services/skill_coverage.py                                              *)
(***************************************************************************)
\* Mutant: only the first non-blank tag of the question is returned.
_extract_question_tags_from_turn_FirstTagOnly(turn) ==
    SubSeq(SelectSeq(turn.question.tags, LAMBDA t : strip(t) /= << >>), 1, 1)

\* _extract_question_tags_from_turn: the tags of the turn's question whose
\* stripped text is non-empty.
_extract_question_tags_from_turn(turn) ==
    SelectSeq(turn.question.tags, LAMBDA t : strip(t) /= << >>)

\* The normalized_to_skill dict of compute_skill_coverage, as the sequence of
\* its (key, skill) items in insertion order.
RECURSIVE NormalizedToSkillFrom(_, _)
NormalizedToSkillFrom(top_skills, items) ==
    IF top_skills = << >> THEN items
    ELSE LET skill_str == strip(Head(top_skills))
             key == _normalize_token(skill_str)
         IN IF skill_str = << >>
            THEN NormalizedToSkillFrom(Tail(top_skills), items)
            ELSE IF key /= << >> /\ \A i \in 1..Len(items) : items[i].key /= key
                 THEN NormalizedToSkillFrom(Tail(top_skills),
                                            Append(items, [key |-> key, skill |-> skill_str]))
                 ELSE NormalizedToSkillFrom(Tail(top_skills), items)

\* Mutant: walks top_skills backwards, so the last spelling wins.
normalized_to_skill_LastWins(top_skills) ==
    NormalizedToSkillFrom([ i \in 1..Len(top_skills) |->
                              top_skills[Len(top_skills) + 1 - i] ], << >>)

normalized_to_skill(top_skills) == NormalizedToSkillFrom(top_skills, << >>)

\* The loop over the tags of one turn: coverage[skill] += 1 per matching tag.
RECURSIVE CountTags(_, _, _)
CountTags(tags, items, coverage) ==
    IF tags = << >> THEN coverage
    ELSE LET key == _normalize_token(Head(tags))
             hits == { i \in 1..Len(items) : items[i].key = key }
         IN IF hits = {}
            THEN CountTags(Tail(tags), items, coverage)
            ELSE LET skill == items[CHOOSE i \in hits : TRUE].skill
                 IN CountTags(Tail(tags), items,
                              [coverage EXCEPT ![skill] = @ + 1])

\* The loop over the transcript.
RECURSIVE CountTurns(_, _, _)
CountTurns(transcript, items, coverage) ==
    IF transcript = << >> THEN coverage
    ELSE CountTurns(Tail(transcript), items,
                    CountTags(_extract_question_tags_from_turn(Head(transcript)),
                              items, coverage))

\* compute_skill_coverage: a dict skill -> count, as a function.
compute_skill_coverage(top_skills, transcript) ==
    LET items == normalized_to_skill(top_skills)
        coverage == [ skill \in { items[i].skill : i \in 1..Len(items) } |-> 0 ]
    IN IF DOMAIN coverage = {}
       THEN coverage
       ELSE CountTurns(transcript, items, coverage)

\* The unique_skills list of pick_next_focus_skill.
RECURSIVE UniqueSkillsFrom(_, _, _)
UniqueSkillsFrom(top_skills, seen, unique) ==
    IF top_skills = << >> THEN unique
    ELSE LET skill_str == strip(Head(top_skills))
             key == _normalize_token(skill_str)
         IN IF skill_str = << >>
            THEN UniqueSkillsFrom(Tail(top_skills), seen, unique)
            ELSE IF key /= << >> /\ key \notin seen
                 THEN UniqueSkillsFrom(Tail(top_skills), seen \cup {key},
                                       Append(unique, skill_str))
                 ELSE UniqueSkillsFrom(Tail(top_skills), seen, unique)

\* Mutant: every non-blank entry is kept, respelled or not.
unique_skills_KeepsRespellings(top_skills) ==
    SelectSeq([ i \in 1..Len(top_skills) |-> strip(top_skills[i]) ],
              LAMBDA skill_str : skill_str /= << >>)

unique_skills(top_skills) == UniqueSkillsFrom(top_skills, {}, << >>)

\* Mutant: ties go to the last skill of minimal count.
pick_next_focus_skill_LastMinimum(top_skills, coverage) ==
    LET unique == unique_skills(top_skills)
        counts == [ i \in 1..Len(unique) |->
                      IF unique[i] \in DOMAIN coverage THEN coverage[unique[i]] ELSE 0 ]
        IsMin(i) == \A j \in 1..Len(unique) : counts[i] <= counts[j]
    IN IF unique = << >>
       THEN None
       ELSE Some(unique[CHOOSE i \in 1..Len(unique) :
                           IsMin(i) /\ \A j \in (i + 1)..Len(unique) : ~IsMin(j)])

\* Mutant: gives up when the coverage map has no entry for any skill.
pick_next_focus_skill_NoneWithoutCounts(top_skills, coverage) ==
    LET unique == unique_skills(top_skills)
        counts == [ i \in 1..Len(unique) |->
                      IF unique[i] \in DOMAIN coverage THEN coverage[unique[i]] ELSE 0 ]
        IsMin(i) == \A j \in 1..Len(unique) : counts[i] <= counts[j]
    IN IF unique = << >> \/ \A i \in 1..Len(unique) : unique[i] \notin DOMAIN coverage
       THEN None
       ELSE Some(unique[CHOOSE i \in 1..Len(unique) :
                           IsMin(i) /\ \A j \in 1..(i - 1) : ~IsMin(j)])

\* pick_next_focus_skill: None, or the first unique skill of minimal count.
pick_next_focus_skill(top_skills, coverage) ==
    LET unique == unique_skills(top_skills)
        counts == [ i \in 1..Len(unique) |->
                      IF unique[i] \in DOMAIN coverage THEN coverage[unique[i]] ELSE 0 ]
        IsMin(i) == \A j \in 1..Len(unique) : counts[i] <= counts[j]
    IN IF unique = << >>
       THEN None
       ELSE Some(unique[CHOOSE i \in 1..Len(unique) :
                           IsMin(i) /\ \A j \in 1..(i - 1) : ~IsMin(j)])

(***************************************************************************)
(* agents/interview_coach.py                                               *)
(***************************************************************************)
\* Mutant: the language model's question is returned as it came.
generate_interview_question_NoBackstop(question, focus_skill) == question

\* generate_interview_question after call_structured_llm has returned
\* `question`: the focus skill is appended to the tags when no tag equals
\* it after strip().lower().
generate_interview_question(question, focus_skill) ==
    IF focus_skill /= None /\ Get(focus_skill) /= << >> /\ strip(Get(focus_skill)) /= << >>
    THEN LET focus_normalized == lower(strip(Get(focus_skill)))
         IN IF ~\E i \in 1..Len(question.tags) :
                    lower(strip(question.tags[i])) = focus_normalized
            THEN [ question EXCEPT !.tags = Append(@, strip(Get(focus_skill))) ]
            ELSE question
    ELSE question

(***************************************************************************)
(* db.py: rows are kept in insertion order and a row's id is its position  *)
(* (AUTOINCREMENT keys; no row is ever deleted).                           *)
(***************************************************************************)
EmptyDb == [ vacancies |-> << >>, user_vacancies |-> << >>, questions |-> << >>,
             answers |-> << >>, suggestions |-> << >> ]

\* The single signed-in user of a session (auth.require_user_identity).
UserId == 1

\* Outcome of a db call that returned: the rows afterwards and the id.
DbResult(d, id) == [db |-> d, id |-> id, raised |-> "none"]

\* Outcome of a db call that raised before it opened a connection.
DbRaised(d, exc) == [db |-> d, id |-> 0, raised |-> exc]

\* not str(text).strip(), over the texts of the model.
IsBlank(text) == text \in { "", " ", " \t" }

\* upsert_vacancy: a blank position title raises ValueError; unique on
\* (position_title, jd_file_hash); a conflict replaces jd_text.
upsert_vacancy(d, position_title, jd_file_hash, jd_text) ==
    LET ids == { i \in 1..Len(d.vacancies) :
                   /\ d.vacancies[i].position_title = position_title
                   /\ d.vacancies[i].jd_file_hash = jd_file_hash }
    IN IF IsBlank(position_title) THEN DbRaised(d, "ValueError")
       ELSE IF ids /= {}
       THEN LET id == CHOOSE i \in ids : TRUE
            IN DbResult([ d EXCEPT !.vacancies[id].jd_text = jd_text ], id)
       ELSE DbResult([ d EXCEPT !.vacancies = Append(@,
                          [ position_title |-> position_title,
                            jd_file_hash |-> jd_file_hash, jd_text |-> jd_text ]) ],
                     Len(d.vacancies) + 1)

\* link_user_vacancy: unique on (user_id, vacancy_id).
link_user_vacancy(d, user_id, vacancy_id) ==
    LET ids == { i \in 1..Len(d.user_vacancies) :
                   /\ d.user_vacancies[i].user_id = user_id
                   /\ d.user_vacancies[i].vacancy_id = vacancy_id }
    IN IF ids /= {}
       THEN DbResult(d, CHOOSE i \in ids : TRUE)
       ELSE DbResult([ d EXCEPT !.user_vacancies = Append(@,
                          [ user_id |-> user_id, vacancy_id |-> vacancy_id ]) ],
                     Len(d.user_vacancies) + 1)

\* Mutant: every call inserts a row, as if the table had no unique key.
create_question_AlwaysInserts(d, user_vacancy_id, question, question_order) ==
    IF IsBlank(question.question_text) THEN DbRaised(d, "ValueError")
    ELSE DbResult([ d EXCEPT !.questions = Append(@,
                       [ user_vacancy_id |-> user_vacancy_id,
                         question_order |-> question_order,
                         question_text |-> question.question_text ]) ],
                  Len(d.questions) + 1)

\* create_question: a blank question text raises ValueError; unique on
\* (user_vacancy_id, question_order); a conflict replaces the text and
\* keeps the row (and so its id).  The category, difficulty and tag columns
\* are written and never read back.
create_question(d, user_vacancy_id, question, question_order) ==
    LET ids == { i \in 1..Len(d.questions) :
                   /\ d.questions[i].user_vacancy_id = user_vacancy_id
                   /\ d.questions[i].question_order = question_order }
    IN IF IsBlank(question.question_text) THEN DbRaised(d, "ValueError")
       ELSE IF ids /= {}
       THEN LET id == CHOOSE i \in ids : TRUE
            IN DbResult([ d EXCEPT !.questions[id].question_text = question.question_text ], id)
       ELSE DbResult([ d EXCEPT !.questions = Append(@,
                          [ user_vacancy_id |-> user_vacancy_id,
                            question_order |-> question_order,
                            question_text |-> question.question_text ]) ],
                     Len(d.questions) + 1)

\* Mutant: an existing answer row takes the text and the skip mark of the
\* new call.
insert_answer_UpdatesExisting(d, question_id, answer_text, is_skipped) ==
    LET ids == { i \in 1..Len(d.answers) : d.answers[i].question_id = question_id }
        row == [ question_id |-> question_id,
                 answer_text |-> IF is_skipped THEN None ELSE answer_text,
                 is_skipped |-> is_skipped ]
    IN IF ~is_skipped /\ (answer_text = None \/ IsBlank(Get(answer_text)))
       THEN DbRaised(d, "ValueError")
       ELSE IF ids /= {}
       THEN LET id == CHOOSE i \in ids : TRUE
            IN DbResult([ d EXCEPT !.answers[id] = row ], id)
       ELSE DbResult([ d EXCEPT !.answers = Append(@, row) ], Len(d.answers) + 1)

\* insert_answer: an answer that is not skipped and has no text raises
\* ValueError; an existing answer row of the question is returned as is; a
\* skipped answer stores no text.
insert_answer(d, question_id, answer_text, is_skipped) ==
    LET ids == { i \in 1..Len(d.answers) : d.answers[i].question_id = question_id }
    IN IF ~is_skipped /\ (answer_text = None \/ IsBlank(Get(answer_text)))
       THEN DbRaised(d, "ValueError")
       ELSE IF ids /= {}
       THEN DbResult(d, CHOOSE i \in ids : TRUE)
       ELSE DbResult([ d EXCEPT !.answers = Append(@,
                          [ question_id |-> question_id,
                            answer_text |-> IF is_skipped THEN None ELSE answer_text,
                            is_skipped |-> is_skipped ]) ],
                     Len(d.answers) + 1)

\* Mutant: every call inserts a row, whether or not the question has one.
insert_suggestion_AlwaysInserts(d, question_id, correctness, role_relevance, fallacy_detected) ==
    DbResult([ d EXCEPT !.suggestions = Append(@,
                  [ question_id |-> question_id,
                    correctness |-> correctness,
                    role_relevance |-> role_relevance,
                    fallacy_detected |-> fallacy_detected ]) ],
             Len(d.suggestions) + 1)

\* insert_suggestion: an existing suggestion row of the question is
\* returned as is.
insert_suggestion(d, question_id, correctness, role_relevance, fallacy_detected) ==
    LET ids == { i \in 1..Len(d.suggestions) : d.suggestions[i].question_id = question_id }
    IN IF ids /= {}
       THEN DbResult(d, CHOOSE i \in ids : TRUE)
       ELSE DbResult([ d EXCEPT !.suggestions = Append(@,
                          [ question_id |-> question_id,
                            correctness |-> correctness,
                            role_relevance |-> role_relevance,
                            fallacy_detected |-> fallacy_detected ]) ],
                     Len(d.suggestions) + 1)

\* The rows selected by fetch_user_vacancy_analytics: the questions of the
\* session LEFT JOINed with their answers and with their suggestions.  A
\* joined row names the question, the answer and the suggestion by id; 0
\* stands for the NULLs of a question without a matching row.
JoinedRows(d, user_vacancy_id) ==
    { row \in [ question_id : { i \in 1..Len(d.questions) :
                                  d.questions[i].user_vacancy_id = user_vacancy_id },
                answer_id : 0..Len(d.answers),
                suggestion_id : 0..Len(d.suggestions) ] :
        /\ IF \E i \in 1..Len(d.answers) : d.answers[i].question_id = row.question_id
           THEN row.answer_id /= 0
                /\ d.answers[row.answer_id].question_id = row.question_id
           ELSE row.answer_id = 0
        /\ IF \E i \in 1..Len(d.suggestions) :
                 d.suggestions[i].question_id = row.question_id
           THEN row.suggestion_id /= 0
                /\ d.suggestions[row.suggestion_id].question_id = row.question_id
           ELSE row.suggestion_id = 0 }

\* Mutant: counts the questions with an answer that is not skipped as
\* answered.
fetch_user_vacancy_analytics_CountsAnswers(d, user_vacancy_id) ==
    LET rows == JoinedRows(d, user_vacancy_id)
    IN [ total_questions |-> Cardinality(rows),
         skipped_questions |->
             Cardinality({ row \in rows : /\ row.answer_id /= 0
                                          /\ d.answers[row.answer_id].is_skipped }),
         answered_questions |->
             Cardinality({ row \in rows : /\ row.answer_id /= 0
                                          /\ ~d.answers[row.answer_id].is_skipped }) ]

\* fetch_user_vacancy_analytics: the counts of the summary.  is_skipped is
\* COALESCE(a.is_skipped, 0) and correctness is the NOT NULL column of the
\* joined suggestion, so it is None exactly when there is no suggestion.
fetch_user_vacancy_analytics(d, user_vacancy_id) ==
    LET rows == JoinedRows(d, user_vacancy_id)
    IN [ total_questions |-> Cardinality(rows),
         skipped_questions |->
             Cardinality({ row \in rows : /\ row.answer_id /= 0
                                          /\ d.answers[row.answer_id].is_skipped }),
         answered_questions |->
             Cardinality({ row \in rows : row.suggestion_id /= 0 }) ]

(***************************************************************************)
(* The state machine under an arbitrary caller.                            *)
(***************************************************************************)
NoArgs == [ question |-> None, question_id |-> None, question_order |-> None,
            answer |-> "", scorecard |-> None, fallacy_hint |-> None ]

Call(op, args, raised) == [op |-> op, args |-> args, raised |-> raised]

\* A direct caller of session_state.py has no database and no skill list.
Init ==
    /\ state = Merge(new_interview_state, AbsentKeys)
    /\ call = Call("new_interview_state", NoArgs, "none")
    /\ db = EmptyDb
    /\ session_top_skills = << >>

StartInterview ==
    \E q \in Questions, key \in QuestionKeys :
        LET r == start_interview(state, q, key.id, key.order)
        IN /\ state' = r.state
           /\ call' = Call("start_interview",
                           [NoArgs EXCEPT !.question = Some(q),
                                          !.question_id = key.id,
                                          !.question_order = key.order],
                           r.raised)

SubmitAnswer ==
    \E arg \in SubmitArgs, nq \in OptQuestions :
        LET r == submit_answer(state, arg.answer, arg.scorecard, nq, arg.fallacy_hint)
        IN /\ Len(r.state.transcript) <= MaxTurns
           /\ state' = r.state
           /\ call' = Call("submit_answer",
                           [NoArgs EXCEPT !.answer = arg.answer,
                                          !.scorecard = Some(arg.scorecard),
                                          !.question = nq,
                                          !.fallacy_hint = arg.fallacy_hint],
                           r.raised)

SkipQuestion ==
    \E nq \in OptQuestions :
        LET r == skip_question(state, nq)
        IN /\ Len(r.state.transcript) <= MaxTurns
           /\ state' = r.state
           /\ call' = Call("skip_question", [NoArgs EXCEPT !.question = nq], r.raised)

ResetInterview ==
    LET r == reset_interview(state)
    IN /\ state' = r.state
       /\ call' = Call("reset_interview", NoArgs, r.raised)

\* The caller stores its inputs under the kept keys (plain dict writes).
WriteInputs ==
    \E b \in InputBundles :
        /\ state' = Merge(b, state)
        /\ call' = Call("write_inputs", NoArgs, "none")

Next ==
    /\ \/ StartInterview
       \/ SubmitAnswer
       \/ SkipQuestion
       \/ ResetInterview
       \/ WriteInputs
    /\ UNCHANGED << db, session_top_skills >>

Spec == Init /\ [][Next]_vars

(***************************************************************************)
(* app.py: the orchestrator.  Every handler runs to completion within one  *)
(* rerun of main(); an external call either returns or raises, and a       *)
(* raised exception ends the handler in its except clause.                 *)
(***************************************************************************)
\* What a handler leaves behind: session state, rows, the calls it issued
\* and the exception that ended it ("none" when it completed).
Ctx(s, d, t, r) == [state |-> s, db |-> d, trace |-> t, raised |-> r]

\* int(x or 0)
IntOrZero(o) == IF TruthyInt(o) THEN Get(o) ELSE 0

\* CandidateProfile(target_role=position_title or None).model_dump()
PlaceholderProfile(position_title) ==
    [ target_role |-> IF TruthyStr(position_title) THEN position_title ELSE None,
      skills |-> << >> ]

\* The hint substituted when judge_answer_for_fallacies raises.
DefaultFallacyHint ==
    [ hint_level |-> "none", possible_fallacies |-> << >>,
      more_info_text |-> UNCERTAINTY_DISCLAIMER ]

\* to_pct: int(round((value / 5) * 100))
to_pct(value) == value * 20

\* One submission: the answer after check_user_text, the scorecard returned
\* by the evaluator and the judge's outcome (None when the judge raises).
SubmitInputs ==
    { [ answer |-> "A2", scorecard |-> [correctness |-> 5, role_relevance |-> 1],
        judged |-> Some([ hint_level |-> "light",
                          possible_fallacies |-> << "false_cause" >>,
                          more_info_text |-> UNCERTAINTY_DISCLAIMER ]) ] }

\* What the language model returns for a question request, before the
\* focus-skill backstop of generate_interview_question.
LlmQuestions == { Question("Q1", << python >>) }

\* Points at which a handler can be ended by an exception.
StartFailures == { "none", "generate_interview_question", "create_question" }

SubmitFailures == { "none", "answer_blocked", "job_description_blocked",
                    "evaluate_interview_answer", "generate_interview_question",
                    "create_question", "insert_answer", "insert_suggestion",
                    "create_next_question" }

SkipFailures == { "none", "job_description_blocked", "create_question",
                  "insert_answer", "generate_interview_question",
                  "create_next_question" }

\* Mutant: calls start_interview before the question is persisted.
StartHandler_StartsBeforePersisting(s, d, skills, llm_question, fail) ==
    LET s1 == IF ~TruthyDict(s.profile)
              THEN [ s EXCEPT !.profile = Some(PlaceholderProfile(s.position_title)) ]
              ELSE s
        coverage == compute_skill_coverage(skills, s1.transcript)
        focus_skill == pick_next_focus_skill(skills, coverage)
        question == generate_interview_question(llm_question, focus_skill)
        t1 == << "generate_interview_question" >>
        question_order == Len(s1.transcript) + 1
        user_vacancy_id == IntOrZero(s1.user_vacancy_id)
        started == start_interview(s1, question, None, Some(question_order))
        t2 == Append(t1, "start_interview")
        created == create_question(d, user_vacancy_id, question, question_order)
    IN IF fail = "generate_interview_question" THEN Ctx(s1, d, t1, "Exception")
       ELSE IF user_vacancy_id = 0 THEN Ctx(started.state, d, t2, "none")
       ELSE IF fail = "create_question"
            THEN Ctx(started.state, d, Append(t2, "create_question"), "Exception")
       ELSE Ctx([ started.state EXCEPT !.current_question_id = Some(created.id) ],
                created.db, Append(t2, "create_question"), "none")

\* "Start interview" (app.py 228-278); llm_question is what the language
\* model returns for the question request.
StartHandler(s, d, skills, llm_question, fail) ==
    LET s1 == IF ~TruthyDict(s.profile)
              THEN [ s EXCEPT !.profile = Some(PlaceholderProfile(s.position_title)) ]
              ELSE s
        transcript == s1.transcript
        coverage == compute_skill_coverage(skills, transcript)
        focus_skill == pick_next_focus_skill(skills, coverage)
        question == generate_interview_question(llm_question, focus_skill)
        t1 == << "generate_interview_question" >>
        question_order == Len(s1.transcript) + 1
        user_vacancy_id == IntOrZero(s1.user_vacancy_id)
        created == create_question(d, user_vacancy_id, question, question_order)
        t2 == IF user_vacancy_id /= 0 THEN Append(t1, "create_question") ELSE t1
        d2 == IF user_vacancy_id /= 0 THEN created.db ELSE d
        question_id == IF user_vacancy_id /= 0 THEN Some(created.id) ELSE None
        started == start_interview(s1, question, question_id, Some(question_order))
    IN IF fail = "generate_interview_question" THEN Ctx(s1, d, t1, "Exception")
       ELSE IF user_vacancy_id /= 0 /\ fail = "create_question"
            THEN Ctx(s1, d, t2, "Exception")
       ELSE Ctx(started.state, d2, Append(t2, "start_interview"), started.raised)

\* Mutant: the next question is numbered like the one just closed.
NextQuestionOrder_Same(current_question_order) == current_question_order

\* next_question_order of the submit and skip branches (app.py 432, 519).
NextQuestionOrder(current_question_order) == current_question_order + 1

\* Mutant: the transition is given no next question.
NextQuestionArg_None(next_question) == None

\* next_question=next_question (app.py 447 and 530): submit and skip hand
\* the generated question to the transition, never None.
NextQuestionArg(next_question) == Some(next_question)

\* Mutant: coverage is computed over the stored transcript alone.
FullTranscript_OmitsClosingTurn(transcript, turn_dict) == transcript

\* full_transcript = transcript + [turn_dict] (app.py 377 and 503): the
\* transcript over which submit and skip compute the coverage.
FullTranscript(transcript, turn_dict) == Append(transcript, turn_dict)

\* Mutant: an exception of the fallacy judge ends the handler.
SubmitHandler_JudgeFailureAborts(s, d, skills, inp, llm_question, fail) ==
    LET q == Get(s.current_question)
        transcript == s.transcript
        safe_answer == inp.answer
        t1 == << "check_user_text" >>
        t2 == Append(t1, "check_user_text")
        scorecard == inp.scorecard
        t3 == Append(t2, "evaluate_interview_answer")
        fallacy_hint == IF inp.judged = None THEN DefaultFallacyHint ELSE Get(inp.judged)
        t4 == Append(t3, "judge_answer_for_fallacies")
        turn_dict == [ question |-> q, answer |-> safe_answer,
                       scorecard |-> Some(scorecard),
                       fallacy_hint |-> Some(fallacy_hint), is_skipped |-> FALSE ]
        full_transcript == FullTranscript(transcript, turn_dict)
        coverage == compute_skill_coverage(skills, full_transcript)
        focus_skill == pick_next_focus_skill(skills, coverage)
        next_question == generate_interview_question(llm_question, focus_skill)
        t5 == Append(t4, "generate_interview_question")
        current_question_order == IF TruthyInt(s.current_question_order)
                                  THEN Get(s.current_question_order)
                                  ELSE Len(transcript) + 1
        user_vacancy_id == IntOrZero(s.user_vacancy_id)
        create_current == user_vacancy_id /= 0 /\ s.current_question_id = None
        created == create_question(d, user_vacancy_id, q, current_question_order)
        t6 == IF create_current THEN Append(t5, "create_question") ELSE t5
        d6 == IF create_current THEN created.db ELSE d
        current_question_id == IF create_current THEN Some(created.id)
                               ELSE s.current_question_id
        s6 == IF create_current
              THEN [ s EXCEPT !.current_question_id = current_question_id,
                              !.current_question_order = Some(current_question_order) ]
              ELSE s
        has_id == current_question_id /= None
        answered == insert_answer(d6, Get(current_question_id), Some(safe_answer), FALSE)
        t7 == IF has_id THEN Append(t6, "insert_answer") ELSE t6
        d7 == IF has_id THEN answered.db ELSE d6
        suggested == insert_suggestion(d7, Get(current_question_id),
                                       to_pct(scorecard.correctness),
                                       to_pct(scorecard.role_relevance),
                                       fallacy_hint.possible_fallacies /= << >>)
        t8 == IF has_id THEN Append(t7, "insert_suggestion") ELSE t7
        d8 == IF has_id THEN suggested.db ELSE d7
        next_question_order == NextQuestionOrder(current_question_order)
        next_created == create_question(d8, user_vacancy_id, next_question, next_question_order)
        t9 == IF user_vacancy_id /= 0 THEN Append(t8, "create_question") ELSE t8
        d9 == IF user_vacancy_id /= 0 THEN next_created.db ELSE d8
        next_question_id == IF user_vacancy_id /= 0 THEN Some(next_created.id) ELSE None
        submitted == submit_answer(s6, safe_answer, scorecard,
                                   NextQuestionArg(next_question), Some(fallacy_hint))
        s10 == [ submitted.state EXCEPT !.current_question_id = next_question_id,
                                        !.current_question_order = Some(next_question_order) ]
    IN IF fail = "answer_blocked" THEN Ctx(s, d, t1, "RuntimeError")
       ELSE IF fail = "job_description_blocked" THEN Ctx(s, d, t2, "RuntimeError")
       ELSE IF fail = "evaluate_interview_answer" THEN Ctx(s, d, t3, "Exception")
       ELSE IF inp.judged = None THEN Ctx(s, d, t4, "Exception")
       ELSE IF fail = "generate_interview_question" THEN Ctx(s, d, t5, "Exception")
       ELSE IF create_current /\ fail = "create_question" THEN Ctx(s, d, t6, "Exception")
       ELSE IF has_id /\ fail = "insert_answer" THEN Ctx(s6, d6, t7, "Exception")
       ELSE IF has_id /\ fail = "insert_suggestion" THEN Ctx(s6, d7, t8, "Exception")
       ELSE IF user_vacancy_id /= 0 /\ fail = "create_next_question"
            THEN Ctx(s6, d8, t9, "Exception")
       ELSE IF submitted.raised /= "none"
            THEN Ctx(submitted.state, d9, Append(t9, "submit_answer"), "Exception")
       ELSE Ctx(s10, d9, Append(t9, "submit_answer"), "none")

\* "Submit answer" (app.py 306-459).
SubmitHandler(s, d, skills, inp, llm_question, fail) ==
    LET q == Get(s.current_question)
        transcript == s.transcript
        safe_answer == inp.answer
        t1 == << "check_user_text" >>
        t2 == Append(t1, "check_user_text")
        scorecard == inp.scorecard
        t3 == Append(t2, "evaluate_interview_answer")
        fallacy_hint == IF inp.judged = None THEN DefaultFallacyHint ELSE Get(inp.judged)
        t4 == Append(t3, "judge_answer_for_fallacies")
        turn_dict == [ question |-> q, answer |-> safe_answer,
                       scorecard |-> Some(scorecard),
                       fallacy_hint |-> Some(fallacy_hint), is_skipped |-> FALSE ]
        full_transcript == FullTranscript(transcript, turn_dict)
        coverage == compute_skill_coverage(skills, full_transcript)
        focus_skill == pick_next_focus_skill(skills, coverage)
        next_question == generate_interview_question(llm_question, focus_skill)
        t5 == Append(t4, "generate_interview_question")
        current_question_order == IF TruthyInt(s.current_question_order)
                                  THEN Get(s.current_question_order)
                                  ELSE Len(transcript) + 1
        user_vacancy_id == IntOrZero(s.user_vacancy_id)
        create_current == user_vacancy_id /= 0 /\ s.current_question_id = None
        created == create_question(d, user_vacancy_id, q, current_question_order)
        t6 == IF create_current THEN Append(t5, "create_question") ELSE t5
        d6 == IF create_current THEN created.db ELSE d
        current_question_id == IF create_current THEN Some(created.id)
                               ELSE s.current_question_id
        s6 == IF create_current
              THEN [ s EXCEPT !.current_question_id = current_question_id,
                              !.current_question_order = Some(current_question_order) ]
              ELSE s
        has_id == current_question_id /= None
        answered == insert_answer(d6, Get(current_question_id), Some(safe_answer), FALSE)
        t7 == IF has_id THEN Append(t6, "insert_answer") ELSE t6
        d7 == IF has_id THEN answered.db ELSE d6
        suggested == insert_suggestion(d7, Get(current_question_id),
                                       to_pct(scorecard.correctness),
                                       to_pct(scorecard.role_relevance),
                                       fallacy_hint.possible_fallacies /= << >>)
        t8 == IF has_id THEN Append(t7, "insert_suggestion") ELSE t7
        d8 == IF has_id THEN suggested.db ELSE d7
        next_question_order == NextQuestionOrder(current_question_order)
        next_created == create_question(d8, user_vacancy_id, next_question, next_question_order)
        t9 == IF user_vacancy_id /= 0 THEN Append(t8, "create_question") ELSE t8
        d9 == IF user_vacancy_id /= 0 THEN next_created.db ELSE d8
        next_question_id == IF user_vacancy_id /= 0 THEN Some(next_created.id) ELSE None
        submitted == submit_answer(s6, safe_answer, scorecard,
                                   NextQuestionArg(next_question), Some(fallacy_hint))
        s10 == [ submitted.state EXCEPT !.current_question_id = next_question_id,
                                        !.current_question_order = Some(next_question_order) ]
    IN IF fail = "answer_blocked" THEN Ctx(s, d, t1, "RuntimeError")
       ELSE IF fail = "job_description_blocked" THEN Ctx(s, d, t2, "RuntimeError")
       ELSE IF fail = "evaluate_interview_answer" THEN Ctx(s, d, t3, "Exception")
       ELSE IF fail = "generate_interview_question" THEN Ctx(s, d, t5, "Exception")
       ELSE IF create_current /\ fail = "create_question" THEN Ctx(s, d, t6, "Exception")
       ELSE IF has_id /\ fail = "insert_answer" THEN Ctx(s6, d6, t7, "Exception")
       ELSE IF has_id /\ fail = "insert_suggestion" THEN Ctx(s6, d7, t8, "Exception")
       ELSE IF user_vacancy_id /= 0 /\ fail = "create_next_question"
            THEN Ctx(s6, d8, t9, "Exception")
       ELSE IF submitted.raised /= "none"
            THEN Ctx(submitted.state, d9, Append(t9, "submit_answer"), "Exception")
       ELSE Ctx(s10, d9, Append(t9, "submit_answer"), "none")

\* Mutant: checks the job description after the skipped answer is stored.
SkipHandler_ChecksAfterPersisting(s, d, skills, llm_question, fail) ==
    LET q == Get(s.current_question)
        transcript == s.transcript
        t1 == << "check_user_text" >>
        current_question_order == IF TruthyInt(s.current_question_order)
                                  THEN Get(s.current_question_order)
                                  ELSE Len(transcript) + 1
        user_vacancy_id == IntOrZero(s.user_vacancy_id)
        create_current == user_vacancy_id /= 0 /\ s.current_question_id = None
        created == create_question(d, user_vacancy_id, q, current_question_order)
        t2 == IF create_current THEN Append(t1, "create_question") ELSE t1
        d2 == IF create_current THEN created.db ELSE d
        current_question_id == IF create_current THEN Some(created.id)
                               ELSE s.current_question_id
        s2 == IF create_current
              THEN [ s EXCEPT !.current_question_id = current_question_id,
                              !.current_question_order = Some(current_question_order) ]
              ELSE s
        has_id == current_question_id /= None
        answered == insert_answer(d2, Get(current_question_id), None, TRUE)
        t3 == IF has_id THEN Append(t2, "insert_answer") ELSE t2
        d3 == IF has_id THEN answered.db ELSE d2
        turn_dict == [ question |-> q, answer |-> "", is_skipped |-> TRUE ]
        full_transcript == FullTranscript(transcript, turn_dict)
        coverage == compute_skill_coverage(skills, full_transcript)
        focus_skill == pick_next_focus_skill(skills, coverage)
        next_question == generate_interview_question(llm_question, focus_skill)
        t4 == Append(t3, "generate_interview_question")
        next_question_order == NextQuestionOrder(current_question_order)
        next_created == create_question(d3, user_vacancy_id, next_question, next_question_order)
        t5 == IF user_vacancy_id /= 0 THEN Append(t4, "create_question") ELSE t4
        d5 == IF user_vacancy_id /= 0 THEN next_created.db ELSE d3
        next_question_id == IF user_vacancy_id /= 0 THEN Some(next_created.id) ELSE None
        skipped == skip_question(s2, NextQuestionArg(next_question))
        s6 == [ skipped.state EXCEPT !.current_question_id = next_question_id,
                                     !.current_question_order = Some(next_question_order) ]
    IN IF create_current /\ fail = "create_question" THEN Ctx(s, d, t2, "Exception")
       ELSE IF has_id /\ fail = "insert_answer" THEN Ctx(s2, d2, t3, "Exception")
       ELSE IF fail = "job_description_blocked" THEN Ctx(s2, d3, t3, "RuntimeError")
       ELSE IF fail = "generate_interview_question" THEN Ctx(s2, d3, t4, "Exception")
       ELSE IF user_vacancy_id /= 0 /\ fail = "create_next_question"
            THEN Ctx(s2, d3, t5, "Exception")
       ELSE IF skipped.raised /= "none"
            THEN Ctx(skipped.state, d5, Append(t5, "skip_question"), "Exception")
       ELSE Ctx(s6, d5, Append(t5, "skip_question"), "none")

\* "Next question" while a question is live and the draft is empty
\* (app.py 461-540).
SkipHandler(s, d, skills, llm_question, fail) ==
    LET q == Get(s.current_question)
        transcript == s.transcript
        t1 == << "check_user_text" >>
        current_question_order == IF TruthyInt(s.current_question_order)
                                  THEN Get(s.current_question_order)
                                  ELSE Len(transcript) + 1
        user_vacancy_id == IntOrZero(s.user_vacancy_id)
        create_current == user_vacancy_id /= 0 /\ s.current_question_id = None
        created == create_question(d, user_vacancy_id, q, current_question_order)
        t2 == IF create_current THEN Append(t1, "create_question") ELSE t1
        d2 == IF create_current THEN created.db ELSE d
        current_question_id == IF create_current THEN Some(created.id)
                               ELSE s.current_question_id
        s2 == IF create_current
              THEN [ s EXCEPT !.current_question_id = current_question_id,
                              !.current_question_order = Some(current_question_order) ]
              ELSE s
        has_id == current_question_id /= None
        answered == insert_answer(d2, Get(current_question_id), None, TRUE)
        t3 == IF has_id THEN Append(t2, "insert_answer") ELSE t2
        d3 == IF has_id THEN answered.db ELSE d2
        turn_dict == [ question |-> q, answer |-> "", is_skipped |-> TRUE ]
        full_transcript == FullTranscript(transcript, turn_dict)
        coverage == compute_skill_coverage(skills, full_transcript)
        focus_skill == pick_next_focus_skill(skills, coverage)
        next_question == generate_interview_question(llm_question, focus_skill)
        t4 == Append(t3, "generate_interview_question")
        next_question_order == NextQuestionOrder(current_question_order)
        next_created == create_question(d3, user_vacancy_id, next_question, next_question_order)
        t5 == IF user_vacancy_id /= 0 THEN Append(t4, "create_question") ELSE t4
        d5 == IF user_vacancy_id /= 0 THEN next_created.db ELSE d3
        next_question_id == IF user_vacancy_id /= 0 THEN Some(next_created.id) ELSE None
        skipped == skip_question(s2, NextQuestionArg(next_question))
        s6 == [ skipped.state EXCEPT !.current_question_id = next_question_id,
                                     !.current_question_order = Some(next_question_order) ]
    IN IF fail = "job_description_blocked" THEN Ctx(s, d, t1, "RuntimeError")
       ELSE IF create_current /\ fail = "create_question" THEN Ctx(s, d, t2, "Exception")
       ELSE IF has_id /\ fail = "insert_answer" THEN Ctx(s2, d2, t3, "Exception")
       ELSE IF fail = "generate_interview_question" THEN Ctx(s2, d3, t4, "Exception")
       ELSE IF user_vacancy_id /= 0 /\ fail = "create_next_question"
            THEN Ctx(s2, d3, t5, "Exception")
       ELSE IF skipped.raised /= "none"
            THEN Ctx(skipped.state, d5, Append(t5, "skip_question"), "Exception")
       ELSE Ctx(s6, d5, Append(t5, "skip_question"), "none")

\* Uploaded files: their sha256 (uploads.upload_hash) and extracted text.
JdFiles == { [hash |-> "j1", text |-> "jd-a"] }

CvFiles == { [hash |-> "c1", text |-> "cv-a"] }

PositionTitles == { "Backend Engineer" }

JdFailures == { "none", "extract_text_from_upload", "job_description_blocked",
                "upsert_vacancy", "link_user_vacancy" }

CvFailures == { "none", "extract_text_from_upload", "cv_text_invalid" }

\* Mutant: an upload is never taken for the stored one.
SameUpload_Never(new_hash, stored_hash) == FALSE

\* not (new_hash != st.session_state.get("..._file_hash")), app.py 100, 131.
SameUpload(new_hash, stored_hash) == Some(new_hash) = stored_hash

\* A rerun with a job description in the uploader and `title` in the
\* position-title box (app.py 82-86, 125-175).
JdUploadHandler(s, d, title, file, fail) ==
    LET s0 == [ s EXCEPT !.position_title = Some(title) ]
        new_hash == file.hash
        t1 == << "extract_text_from_upload" >>
        t2 == Append(t1, "check_user_text")
        s1 == reset_interview([ s0 EXCEPT !.jd_text = Some(file.text),
                                          !.jd_file_hash = Some(new_hash) ]).state
        t3 == Append(t2, "upsert_vacancy")
        upserted == upsert_vacancy(d, title, new_hash, file.text)
        t4 == Append(t3, "link_user_vacancy")
        linked == link_user_vacancy(upserted.db, UserId, upserted.id)
        s2 == [ s1 EXCEPT !.vacancy_id = Some(upserted.id),
                          !.user_vacancy_id = Some(linked.id) ]
    IN IF title = "" THEN Ctx(s0, d, << >>, "none")
       ELSE IF SameUpload(new_hash, s0.jd_file_hash) THEN Ctx(s0, d, << >>, "none")
       ELSE IF fail = "extract_text_from_upload" THEN Ctx(s0, d, t1, "Exception")
       ELSE IF fail = "job_description_blocked" THEN Ctx(s0, d, t2, "RuntimeError")
       ELSE IF fail = "upsert_vacancy" THEN Ctx(s1, d, t3, "Exception")
       ELSE IF fail = "link_user_vacancy" THEN Ctx(s1, upserted.db, t4, "Exception")
       ELSE Ctx(s2, linked.db, t4, "none")

\* A rerun with a CV in the uploader (app.py 97-123).
CvUploadHandler(s, d, file, fail) ==
    LET new_hash == file.hash
        t1 == << "extract_text_from_upload" >>
        t2 == Append(t1, "check_user_text")
        s1 == reset_interview([ s EXCEPT !.cv_text = Some(file.text),
                                         !.cv_file_hash = Some(new_hash),
                                         !.profile = None ]).state
    IN IF SameUpload(new_hash, s.cv_file_hash) THEN Ctx(s, d, << >>, "none")
       ELSE IF fail = "extract_text_from_upload" THEN Ctx(s, d, t1, "Exception")
       ELSE IF fail = "cv_text_invalid" THEN Ctx(s, d, t2, "RuntimeError")
       ELSE Ctx(s1, d, Append(t2, "update_user_cv"), "none")

\* Profiles the language model returns for a CV.
LlmProfiles == { [ target_role |-> Some("Backend Engineer"),
                   skills |-> << Python, python, Sql >> ] }

\* The top_skills loop of "Generate Candidate Profile" (app.py 192-201):
\* stripped items, first spelling wins, compared by lower().
RECURSIVE TopSkillsFrom(_, _, _)
TopSkillsFrom(items, seen, skills) ==
    IF items = << >> \/ Len(skills) >= 10 THEN skills
    ELSE LET skill == strip(Head(items))
             key == lower(skill)
         IN IF skill /= << >> /\ key \notin seen
            THEN TopSkillsFrom(Tail(items), seen \cup {key}, Append(skills, skill))
            ELSE TopSkillsFrom(Tail(items), seen, skills)

(***************************************************************************)
(* The orchestrator as a state machine: one action per handler.            *)
(***************************************************************************)
\* What get_user_top_skills returns on the first rerun: nothing for a new
\* user, the stored list for a returning one.
StoredTopSkills == { << >>, << Python, Sql >> }

\* _init_state(): the keys of new_interview_state() plus the app's own.
OrchInit ==
    /\ state = Merge(new_interview_state,
                     [ AbsentKeys EXCEPT !.position_title = Some("") ])
    /\ call = Call("_init_state", NoArgs, "none")
    /\ db = EmptyDb
    /\ session_top_skills \in StoredTopSkills

\* The handler's outcome becomes the next state.  The orchestrator's steps
\* are told apart by their handlers, so `call` keeps its initial value.
Commit(c) ==
    /\ state' = c.state
    /\ db' = c.db
    /\ UNCHANGED call

JdUpload ==
    \E title \in PositionTitles, file \in JdFiles, fail \in JdFailures :
        /\ Commit(JdUploadHandler(state, db, title, file, fail))
        /\ UNCHANGED session_top_skills

CvUpload ==
    \E file \in CvFiles, fail \in CvFailures :
        /\ Commit(CvUploadHandler(state, db, file, fail))
        /\ UNCHANGED session_top_skills

\* "Generate Candidate Profile" (app.py 177-207); enabled once a CV is held.
GenerateProfile ==
    /\ TruthyStr(state.cv_text)
    /\ \E profile \in LlmProfiles, fails \in BOOLEAN :
        IF fails
        THEN /\ Commit(Ctx(state, db, << "profile_candidate_from_cv_text" >>, "Exception"))
             /\ UNCHANGED session_top_skills
        ELSE /\ Commit(Ctx([ state EXCEPT !.profile = Some(profile) ], db,
                           << "profile_candidate_from_cv_text", "update_user_profile" >>,
                           "none"))
             /\ session_top_skills' = TopSkillsFrom(profile.skills, {}, << >>)

\* "Start interview": the button is disabled while a question is live, once
\* the interview was started, and without job description or title.
StartEnabled ==
    /\ ~TruthyDict(state.current_question)
    /\ ~state.interview_started
    /\ TruthyStr(state.jd_text)
    /\ TruthyStr(state.position_title)

Start ==
    /\ StartEnabled
    /\ \E llm_question \in LlmQuestions, fail \in StartFailures :
        LET c == StartHandler(state, db, session_top_skills, llm_question, fail)
        IN /\ Commit(c)
           /\ UNCHANGED session_top_skills

\* "Submit answer": shown while a question is live, enabled by a draft.
Submit ==
    /\ TruthyDict(state.current_question)
    /\ \E inp \in SubmitInputs, llm_question \in LlmQuestions, fail \in SubmitFailures :
        LET c == SubmitHandler(state, db, session_top_skills, inp, llm_question, fail)
        IN /\ Len(c.state.transcript) <= MaxTurns
           /\ Commit(c)
           /\ UNCHANGED session_top_skills

\* "Next question" with an empty draft while a question is live.
Skip ==
    /\ TruthyDict(state.current_question)
    /\ \E llm_question \in LlmQuestions, fail \in SkipFailures :
        LET c == SkipHandler(state, db, session_top_skills, llm_question, fail)
        IN /\ Len(c.state.transcript) <= MaxTurns
           /\ Commit(c)
           /\ UNCHANGED session_top_skills

\* "Reset interview" (app.py 281-285).
Reset ==
    /\ Commit(Ctx(reset_interview(state).state, db, << "reset_interview" >>, "none"))
    /\ UNCHANGED session_top_skills

\* The interview loop: job description, start, submit, skip, reset.
OrchNext ==
    \/ JdUpload
    \/ Start
    \/ Submit
    \/ Skip
    \/ Reset

OrchSpec == OrchInit /\ [][OrchNext]_vars

\* Submissions of one interview run: those of SubmitInputs with each
\* outcome of the fallacy judge for the answers of LlmHints.
RunInputs ==
    { [ inp EXCEPT !.judged = judge_answer_for_fallacies(llm_fields) ] :
        inp \in SubmitInputs, llm_fields \in LlmHints }

\* "Submit answer" with the submissions of RunInputs.
RunSubmit ==
    /\ TruthyDict(state.current_question)
    /\ \E inp \in RunInputs, llm_question \in LlmQuestions, fail \in SubmitFailures :
        LET c == SubmitHandler(state, db, session_top_skills, inp, llm_question, fail)
        IN /\ Len(c.state.transcript) <= MaxTurns
           /\ Commit(c)
           /\ UNCHANGED session_top_skills

\* One interview run of a candidate who answers every question and never
\* resets: job description, start, submit.
RunNext ==
    \/ JdUpload
    \/ Start
    \/ RunSubmit

RunSpec == OrchInit /\ [][RunNext]_vars

\* The interview loop together with the CV and profile handlers.
AppNext ==
    \/ OrchNext
    \/ CvUpload
    \/ GenerateProfile

AppSpec == OrchInit /\ [][AppNext]_vars

(***************************************************************************)
(* services/skill_coverage.py under an arbitrary caller.                   *)
(***************************************************************************)
\* Characters of skill and tag strings.
Chars == { " ", "\t", "P", "p", "y" }

\* Every string of at most n characters.
RECURSIVE StringsUpTo(_)
StringsUpTo(n) ==
    IF n = 0 THEN { << >> }
    ELSE LET shorter == StringsUpTo(n - 1)
         IN shorter \cup { Append(str, c) : str \in shorter, c \in Chars }

\* top_skills lists: empty, blank entries only, the list of
\* test_skill_coverage_ignores_duplicates_and_blanks, two spellings that
\* differ in inner whitespace, and an untrimmed entry.
SkillLists ==
    { << >>,
      << << >>, << " " >> >>,
      << Python, << " ", "p", "y", " " >>, << >>, Sql >>,
      << << "S", " ", "q" >>, << "s", "\t", " ", "q" >>, python >>,
      << << " ", "P", "y" >>, Sql >> }

\* Tag lists of a recorded question: two spellings of one skill, an
\* untrimmed tag next to a blank one, a tag next to an unrelated one.
TagLists ==
    { << python, Python >>,
      << << " ", "S", "\t", "q" >>, << " " >> >>,
      << Sql, << "x" >> >> }

\* Coverage maps a caller may pass for top_skills: counts for any subset of
\* the deduplicated skills and, possibly, for a skill that is not tracked.
CoverageMaps(top_skills) ==
    LET unique == unique_skills(top_skills)
        keys == { unique[i] : i \in 1..Len(unique) } \cup { << "x" >> }
    IN UNION { [ ks -> 0..MaxCount ] : ks \in SUBSET keys }

\* What a call of a skill_coverage function was given and what it returned.
Applied(op, value, result) ==
    Call(op, [ value |-> value, result |-> result ], "none")

CovInit ==
    /\ state = Merge(new_interview_state, AbsentKeys)
    /\ call = Call("new_interview_state", NoArgs, "none")
    /\ db = EmptyDb
    /\ session_top_skills \in SkillLists

\* One more turn enters the transcript: a question with the given tags is
\* started and then skipped.
RecordTurn ==
    /\ Len(state.transcript) < MaxTurns
    /\ \E tags \in TagLists :
         LET started == start_interview(state, Question("Q1", tags), None, None).state
         IN /\ state' = skip_question(started, None).state
            /\ call' = Call("skip_question", NoArgs, "none")
    /\ UNCHANGED << db, session_top_skills >>

ComputeCoverage ==
    /\ call' = Applied("compute_skill_coverage", state.transcript,
                       compute_skill_coverage(session_top_skills, state.transcript))
    /\ UNCHANGED << state, db, session_top_skills >>

PickFocus ==
    /\ \E coverage \in CoverageMaps(session_top_skills) :
         call' = Applied("pick_next_focus_skill", coverage,
                         pick_next_focus_skill(session_top_skills, coverage))
    /\ UNCHANGED << state, db, session_top_skills >>

CovNext ==
    \/ RecordTurn
    \/ ComputeCoverage
    \/ PickFocus

CovSpec == CovInit /\ [][CovNext]_vars

\* _normalize_token on its own.
NormInit ==
    /\ state = Merge(new_interview_state, AbsentKeys)
    /\ call = Call("new_interview_state", NoArgs, "none")
    /\ db = EmptyDb
    /\ session_top_skills = << >>

Normalize ==
    /\ \E value \in StringsUpTo(MaxLen) :
         call' = Applied("_normalize_token", value, _normalize_token(value))
    /\ UNCHANGED << state, db, session_top_skills >>

NormNext == Normalize

NormSpec == NormInit /\ [][NormNext]_vars

(***************************************************************************)
(* services/safety.py under an arbitrary caller.  A text is a sequence of  *)
(* characters; "NUL" stands for the character \x00.                        *)
(***************************************************************************)
\* Characters of user texts.
TextChars == { " ", "NUL", "a", "b" }

\* Every text of at most n characters.
RECURSIVE TextsUpTo(_)
TextsUpTo(n) ==
    IF n = 0 THEN { << >> }
    ELSE LET shorter == TextsUpTo(n - 1)
         IN shorter \cup { Append(text, c) : text \in shorter, c \in TextChars }

\* text.replace("\x00", "")
RECURSIVE RemoveNul(_)
RemoveNul(text) ==
    IF text = << >> THEN << >>
    ELSE IF Head(text) = "NUL" THEN RemoveNul(Tail(text))
    ELSE << Head(text) >> \o RemoveNul(Tail(text))

\* _normalize: (text or "").replace("\x00", "").strip()
_normalize(text) == strip(RemoveNul(text))

\* Mutant: keeps one character more than max_chars.
truncate_text_CutsAfterLimit(text, max_chars) ==
    LET normalized == _normalize(text)
    IN IF Len(normalized) <= max_chars
       THEN [ text |-> normalized, was_truncated |-> FALSE ]
       ELSE [ text |-> SubSeq(normalized, 1, max_chars + 1), was_truncated |-> TRUE ]

\* truncate_text, for max_chars >= 0: the normalized text, cut to its first
\* max_chars characters when it is longer.
truncate_text(text, max_chars) ==
    LET normalized == _normalize(text)
    IN IF Len(normalized) <= max_chars
       THEN [ text |-> normalized, was_truncated |-> FALSE ]
       ELSE [ text |-> SubSeq(normalized, 1, max_chars), was_truncated |-> TRUE ]

\* What the moderation client answers when it is asked: None when no client
\* is given, else whether it allows the text.
Moderations == { None, Some(TRUE), Some(FALSE) }

\* check_user_text: the decision (allowed, and the keys of meta that tell
\* the cases apart) and the safe text.
check_user_text(text, max_chars, moderation_client) ==
    LET normalized == _normalize(text)
        cut == truncate_text(normalized, max_chars)
        truncated == cut.text
    IN IF truncated = << >>
       THEN [ allowed |-> FALSE, empty |-> TRUE, moderated |-> FALSE,
              truncated |-> FALSE, safe_text |-> << >> ]
       ELSE IF moderation_client /= None /\ ~Get(moderation_client)
       THEN [ allowed |-> FALSE, empty |-> FALSE, moderated |-> TRUE,
              truncated |-> cut.was_truncated, safe_text |-> << >> ]
       ELSE [ allowed |-> TRUE, empty |-> FALSE, moderated |-> moderation_client /= None,
              truncated |-> cut.was_truncated, safe_text |-> truncated ]

\* Arguments of check_user_text: a text, a limit and a moderation answer.
CheckArgs ==
    { [ text |-> text, max_chars |-> max_chars, moderation_client |-> m ] :
        text \in TextsUpTo(MaxLen), max_chars \in 0..MaxLen, m \in Moderations }

\* A caller holds the arguments of one call.
SafetyInit ==
    /\ state = Merge(new_interview_state, AbsentKeys)
    /\ \E args \in CheckArgs : call = Applied("caller", args, None)
    /\ db = EmptyDb
    /\ session_top_skills = << >>

\* The call is made and its result recorded.
CheckUserText ==
    /\ call.op = "caller"
    /\ LET args == call.args.value
       IN call' = Applied("check_user_text", args,
                          check_user_text(args.text, args.max_chars,
                                          args.moderation_client))
    /\ UNCHANGED << state, db, session_top_skills >>

SafetyNext == CheckUserText

SafetySpec == SafetyInit /\ [][SafetyNext]_vars

(***************************************************************************)
(* One interview run without failures: a job description is held, the      *)
(* interview is started once and every submit and skip succeeds.  The      *)
(* profile's top_skills stay as they were drawn.                           *)
(***************************************************************************)
\* top_skills of the profile: one skill, two skills, two skills with a
\* respelled duplicate, three skills.
LoopSkills ==
    { << Python >>,
      << Python, Sql >>,
      << Sql, << " ", "p", "y" >>, Python >>,
      << << "S", " ", "q" >>, Python, Sql >> }

\* Questions of the language model: untagged, tagged with one tracked
\* skill, tagged with two.
LoopQuestions ==
    { Question("Q1", << >>),
      Question("Q2", << python >>),
      Question("Q3", << Sql, << "p", "y", " " >> >>) }

\* The session once a job description has been uploaded and stored.
LoopInit ==
    /\ \E title \in PositionTitles, file \in JdFiles :
          LET s0 == Merge(new_interview_state,
                          [ AbsentKeys EXCEPT !.position_title = Some("") ])
              c == JdUploadHandler(s0, EmptyDb, title, file, "none")
          IN /\ state = c.state
             /\ db = c.db
    /\ call = Call("_init_state", NoArgs, "none")
    /\ session_top_skills \in LoopSkills

LoopStart ==
    /\ StartEnabled
    /\ \E llm_question \in LoopQuestions :
        /\ Commit(StartHandler(state, db, session_top_skills, llm_question, "none"))
        /\ UNCHANGED session_top_skills

LoopSubmit ==
    /\ TruthyDict(state.current_question)
    /\ \E inp \in SubmitInputs, llm_question \in LoopQuestions :
        LET c == SubmitHandler(state, db, session_top_skills, inp, llm_question, "none")
        IN /\ Len(c.state.transcript) <= MaxTurns
           /\ Commit(c)
           /\ UNCHANGED session_top_skills

LoopSkip ==
    /\ TruthyDict(state.current_question)
    /\ \E llm_question \in LoopQuestions :
        LET c == SkipHandler(state, db, session_top_skills, llm_question, "none")
        IN /\ Len(c.state.transcript) <= MaxTurns
           /\ Commit(c)
           /\ UNCHANGED session_top_skills

LoopNext ==
    \/ LoopStart
    \/ LoopSubmit
    \/ LoopSkip

LoopSpec == LoopInit /\ [][LoopNext]_vars

(***************************************************************************)
(* services/llm_structured.py: one call of call_structured_llm, attempt by *)
(* attempt.  `call.args` holds the call's frame: the result type, the      *)
(* position in the function, the loop counter, last_err, the attempts made *)
(* so far and the value returned.                                          *)
(***************************************************************************)
\* The result types the agents ask for.
ResultTypes == { "CandidateProfile", "InterviewQuestion", "ScoreCard", "FallacyHint" }

\* What one attempt ends with: a validated instance ("ok", with the payload
\* it was built from) or an exception.
Outcome(kind, payload) == [ kind |-> kind, payload |-> payload ]

\* pydantic_ai's Agent: a result, or any exception (a missing package, an
\* API error, a validation error).
AgentOutcomes ==
    { Outcome("ok", p) : p \in { "payload-1", "payload-2" } }
    \cup { Outcome(e, "") : e \in { "ImportError", "APIError", "ValidationError" } }

\* _openai_chat_json followed by model_validate: a result, a JSON that does
\* not parse, a JSON that does not validate, a missing API key or an API
\* error.
ChatOutcomes ==
    { Outcome("ok", p) : p \in { "payload-1", "payload-2" } }
    \cup { Outcome(e, "") :
             e \in { "JSONDecodeError", "ValidationError", "RuntimeError", "APIError" } }

\* Mutant: every exception of a chat attempt is caught and retried.
Retryable_AnyError(outcome) == outcome.kind /= "ok"

\* except (JSONDecodeError, ValidationError)
Retryable(outcome) == outcome.kind \in { "JSONDecodeError", "ValidationError" }

\* while attempts < 2
ChatAttemptLimit == 2

\* One attempt as the frame's log keeps it.
Attempt(provider, outcome) == [ provider |-> provider, outcome |-> outcome ]

Frame(result_type, pc, attempts, last_err, log, returned) ==
    [ result_type |-> result_type, pc |-> pc, attempts |-> attempts,
      last_err |-> last_err, log |-> log, returned |-> returned ]

\* An agent calls call_structured_llm for its result type.
LlmInit ==
    /\ state = Merge(new_interview_state, AbsentKeys)
    /\ \E result_type \in ResultTypes :
          call = Call("call_structured_llm",
                      Frame(result_type, "agent", 0, None, << >>, None), "none")
    /\ db = EmptyDb
    /\ session_top_skills = << >>

\* The try block around pydantic_ai (llm_structured.py 119-135): a result
\* is returned, any exception falls through to the chat completions.
StructuredAgent ==
    /\ call.args.pc = "agent"
    /\ \E outcome \in AgentOutcomes :
          LET f == call.args
              log == Append(f.log, Attempt("pydantic_ai", outcome))
          IN call' = IF outcome.kind = "ok"
                     THEN Call(call.op,
                               Frame(f.result_type, "done", f.attempts, f.last_err, log,
                                     Some([ type |-> f.result_type,
                                            payload |-> outcome.payload ])),
                               "none")
                     ELSE Call(call.op,
                               Frame(f.result_type, "chat", f.attempts, f.last_err, log,
                                     None),
                               "none")
    /\ UNCHANGED << state, db, session_top_skills >>

\* One pass of the while loop (llm_structured.py 139-160).
ChatCompletion ==
    /\ call.args.pc = "chat"
    /\ call.args.attempts < ChatAttemptLimit
    /\ \E outcome \in ChatOutcomes :
          LET f == call.args
              attempts == f.attempts + 1
              log == Append(f.log, Attempt("openai_chat", outcome))
          IN call' = IF outcome.kind = "ok"
                     THEN Call(call.op,
                               Frame(f.result_type, "done", attempts, f.last_err, log,
                                     Some([ type |-> f.result_type,
                                            payload |-> outcome.payload ])),
                               "none")
                     ELSE IF Retryable(outcome)
                     THEN Call(call.op,
                               Frame(f.result_type, "chat", attempts, Some(outcome.kind),
                                     log, None),
                               "none")
                     ELSE Call(call.op,
                               Frame(f.result_type, "done", attempts, f.last_err, log,
                                     None),
                               outcome.kind)
    /\ UNCHANGED << state, db, session_top_skills >>

\* raise last_err or RuntimeError("LLM call failed") after the loop.
RaiseLastError ==
    /\ call.args.pc = "chat"
    /\ call.args.attempts >= ChatAttemptLimit
    /\ LET f == call.args
       IN call' = Call(call.op,
                       Frame(f.result_type, "done", f.attempts, f.last_err, f.log, None),
                       IF f.last_err /= None THEN Get(f.last_err) ELSE "RuntimeError")
    /\ UNCHANGED << state, db, session_top_skills >>

LlmNext ==
    \/ StructuredAgent
    \/ ChatCompletion
    \/ RaiseLastError

LlmSpec == LlmInit /\ [][LlmNext]_vars

(***************************************************************************)
(* Properties of the state machine.                                        *)
(***************************************************************************)
\* len(transcript) + (1 if current_question else 0)
Progress(s) == Len(s.transcript) + (IF TruthyDict(s.current_question) THEN 1 ELSE 0)

Last(seq) == seq[Len(seq)]
Front(seq) == SubSeq(seq, 1, Len(seq) - 1)

\* C1: in a state with no live question, submit_answer and skip_question
\* raise ValueError and leave the whole session state as it was.
C1_NoLiveQuestionRejected ==
    [][ ( /\ call'.op \in {"submit_answer", "skip_question"}
          /\ ~TruthyDict(state.current_question) )
        => ( /\ call'.raised = "ValueError"
             /\ state' = state ) ]_vars

\* A rejected submit_answer in the ended state: the interview was started,
\* turns were recorded and no question is live.
C1_Witness ==
    /\ call.op = "submit_answer"
    /\ call.raised = "ValueError"
    /\ state.interview_started
    /\ Len(state.transcript) >= 1
    /\ state.current_question = None

\* C3 (as stated): after any sequence of start_interview / submit_answer /
\* skip_question calls, the question_order values of the transcript are
\* exactly 1..len(transcript) in transcript order.
C3_OrdersAreOneToLen ==
    \A i \in 1..Len(state.transcript) :
        state.transcript[i].question_order = Some(i)

\* The transcript t is numbered 1..len(t) in order.
OrdersOneToLen(t) == \A i \in 1..Len(t) : t[i].question_order = Some(i)

\* C3 (amended): the turn appended by an accepted submit_answer or
\* skip_question carries the current_question_order the session held at that
\* call (none when start_interview was given none), and the earlier turns are
\* untouched; so the orders stay 1..len(transcript) exactly when the caller
\* held current_question_order = len(transcript) + 1 at the call.
C3_TurnsRecordHeldOrder ==
    [][ (call'.op \in {"submit_answer", "skip_question"} /\ call'.raised = "none")
        => /\ Front(state'.transcript) = state.transcript
           /\ Last(state'.transcript).question_order = state.current_question_order
           /\ OrdersOneToLen(state.transcript)
              => (OrdersOneToLen(state'.transcript)
                  <=> state.current_question_order = Some(Len(state.transcript) + 1)) ]_vars

\* A skipped second turn recorded under the held order 2 after a first turn
\* recorded under 1.
C3_Witness ==
    /\ call.op = "skip_question"
    /\ call.raised = "none"
    /\ Len(state.transcript) = 2
    /\ state.transcript[1].question_order = Some(1)
    /\ state.transcript[2].question_order = Some(2)
    /\ state.transcript[2].is_skipped

\* C4: len(transcript) + (1 if a question is live) never decreases across a
\* start_interview, submit_answer or skip_question call, accepted or rejected.
C4_ProgressNonDecreasing ==
    [][ call'.op \in {"start_interview", "submit_answer", "skip_question"}
        => Progress(state') >= Progress(state) ]_vars

\* A start_interview issued after turns were recorded, and an accepted
\* submit_answer that ended the interview (the quantity stays equal).
C4_Witness ==
    \/ /\ call.op = "start_interview"
       /\ Len(state.transcript) >= 1
    \/ /\ call.op = "submit_answer"
       /\ call.raised = "none"
       /\ state.current_question = None

\* C6: an accepted submit_answer appends exactly one turn; its question is
\* the question live before the call, its answer, scorecard and fallacy hint
\* are the arguments, is_skipped is False, earlier turns are unchanged and
\* the live question afterwards is next_question.
C6_SubmitAppendsLiveQuestion ==
    [][ ( /\ call'.op = "submit_answer"
          /\ TruthyDict(state.current_question) )
        => ( /\ call'.raised = "none"
             /\ Len(state'.transcript) = Len(state.transcript) + 1
             /\ Front(state'.transcript) = state.transcript
             /\ Last(state'.transcript).question = Get(state.current_question)
             /\ Last(state'.transcript).answer = call'.args.answer
             /\ Last(state'.transcript).scorecard = call'.args.scorecard
             /\ Last(state'.transcript).fallacy_hint = call'.args.fallacy_hint
             /\ Last(state'.transcript).is_skipped = FALSE
             /\ state'.current_question = call'.args.question ) ]_vars

\* An accepted submit_answer whose next_question differs from the question
\* that was live, on a transcript that already held a turn.
C6_Witness ==
    /\ call.op = "submit_answer"
    /\ call.raised = "none"
    /\ Len(state.transcript) >= 2
    /\ state.current_question /= None
    /\ Last(state.transcript).question /= Get(state.current_question)

\* C7: an accepted skip_question appends exactly one turn with the live
\* question, empty answer, no scorecard, no fallacy hint and is_skipped True,
\* sets last_scorecard and last_fallacy_hint to None and makes next_question
\* the live question.
C7_SkipAppendsSkippedTurn ==
    [][ ( /\ call'.op = "skip_question"
          /\ TruthyDict(state.current_question) )
        => ( /\ call'.raised = "none"
             /\ Len(state'.transcript) = Len(state.transcript) + 1
             /\ Front(state'.transcript) = state.transcript
             /\ Last(state'.transcript).question = Get(state.current_question)
             /\ Last(state'.transcript).answer = ""
             /\ Last(state'.transcript).scorecard = None
             /\ Last(state'.transcript).fallacy_hint = None
             /\ Last(state'.transcript).is_skipped = TRUE
             /\ state'.last_scorecard = None
             /\ state'.last_fallacy_hint = None
             /\ state'.current_question = call'.args.question ) ]_vars

\* An accepted skip_question right after an answered turn (whose scorecard
\* had filled the last-turn caches), with a different next question.
C7_Witness ==
    /\ call.op = "skip_question"
    /\ call.raised = "none"
    /\ Len(state.transcript) >= 2
    /\ ~state.transcript[Len(state.transcript) - 1].is_skipped
    /\ state.current_question /= None
    /\ Last(state.transcript).question /= Get(state.current_question)

\* C8: a submit_answer or skip_question given no next question leaves no live
\* question and the transcript one turn longer; while no question is live
\* every submit_answer and skip_question is rejected, and only a
\* start_interview makes a question live again.
C8_EndedUntilStart ==
    [][ /\ ( /\ call'.op \in {"submit_answer", "skip_question"}
             /\ TruthyDict(state.current_question)
             /\ call'.args.question = None )
           => ( /\ state'.current_question = None
                /\ Len(state'.transcript) = Len(state.transcript) + 1 )
        /\ ( /\ call'.op \in {"submit_answer", "skip_question"}
             /\ state.current_question = None )
           => ( /\ call'.raised = "ValueError"
                /\ state'.current_question = None
                /\ state'.transcript = state.transcript )
        /\ ( /\ state.current_question = None
             /\ state'.current_question /= None )
           => call'.op = "start_interview" ]_vars

\* A skip_question rejected in the ended state.
C8_Witness ==
    /\ call.op = "skip_question"
    /\ call.raised = "ValueError"
    /\ state.interview_started
    /\ Len(state.transcript) >= 1
    /\ state.current_question = None

\* C9: after reset_interview the transcript is empty, no question is live,
\* the question id and order are None, both last-turn caches are None and
\* interview_started is False.
C9_ResetClearsInterview ==
    [][ call'.op = "reset_interview"
        => ( /\ state'.transcript = << >>
             /\ state'.current_question = None
             /\ state'.current_question_id = None
             /\ state'.current_question_order = None
             /\ state'.last_scorecard = None
             /\ state'.last_fallacy_hint = None
             /\ state'.interview_started = FALSE ) ]_vars

\* reset_interview has run on a session that carried caller inputs.
C9_Witness ==
    /\ call.op = "reset_interview"
    /\ state.job_description = "JD"
    /\ state.transcript = << >>

\* C10: reset_interview leaves every kept key with the value it had before.
C10_ResetKeepsInputs ==
    [][ call'.op = "reset_interview"
        => \A k \in KeptKeys : state'[k] = state[k] ]_vars

\* reset_interview has run on a session whose kept keys were all set.
C10_Witness ==
    /\ call.op = "reset_interview"
    /\ state.prompt_mode = "strict"
    /\ state.cv_text = Some("cv-b")
    /\ state.user_vacancy_id = Some(2)
    /\ state.profile /= None

\* C11: start_interview never raises; in any state it installs its
\* arguments as the live question and its id/order, clears both last-turn
\* caches and sets the started flag, and leaves the transcript and every
\* kept key as they were.
C11_StartOverwritesLiveQuestionOnly ==
    [][ call'.op = "start_interview"
        => /\ call'.raised = "none"
           /\ state'.interview_started
           /\ state'.current_question = call'.args.question
           /\ state'.current_question_id = call'.args.question_id
           /\ state'.current_question_order = call'.args.question_order
           /\ state'.last_scorecard = None
           /\ state'.last_fallacy_hint = None
           /\ state'.transcript = state.transcript
           /\ \A k \in KeptKeys : state'[k] = state[k] ]_vars

\* start_interview has replaced a live question after an answered turn had
\* filled the caches, on a session whose kept keys were set.
C11_Witness ==
    /\ call.op = "start_interview"
    /\ Len(state.transcript) >= 1
    /\ state.transcript[Len(state.transcript)].scorecard /= None
    /\ state.transcript[Len(state.transcript)].question /= Get(state.current_question)
    /\ state.profile /= None

\* a is a prefix of b.
IsPrefix(a, b) == Len(a) <= Len(b) /\ SubSeq(b, 1, Len(a)) = a

\* C12: across start_interview, submit_answer and skip_question the old
\* transcript is a prefix of the new one; only reset_interview shortens it.
C12_TranscriptAppendOnly ==
    [][ /\ call'.op \in {"start_interview", "submit_answer", "skip_question"}
           => IsPrefix(state.transcript, state'.transcript)
        /\ Len(state'.transcript) < Len(state.transcript)
           => call'.op = "reset_interview" ]_vars

\* A second turn has been appended behind a first one.
C12_Witness ==
    /\ call.op \in {"submit_answer", "skip_question"}
    /\ call.raised = "none"
    /\ Len(state.transcript) = 2

(***************************************************************************)
(* Properties of skill coverage.                                           *)
(***************************************************************************)
\* Positions of top_skills that hold a tracked skill: non-blank, and no
\* earlier entry has the same canonical form.
Tracked(top_skills) ==
    { i \in 1..Len(top_skills) :
        /\ strip(top_skills[i]) /= << >>
        /\ \A j \in 1..(i - 1) :
              _normalize_token(top_skills[j]) /= _normalize_token(top_skills[i]) }

\* coverage.get(skill, 0)
CountOf(coverage, skill) == IF skill \in DOMAIN coverage THEN coverage[skill] ELSE 0

\* C13: pick_next_focus_skill returns a tracked skill of minimal count, the
\* earliest one in top_skills order among those tied at the minimum, and
\* returns the same skill for every coverage map that gives the tracked
\* skills the same counts (missing entries counting 0).
C13_PicksEarliestMinimum ==
    (call.op = "pick_next_focus_skill" /\ call.args.result /= None)
    => LET top_skills == session_top_skills
           coverage == call.args.value
           Count(i) == CountOf(coverage, strip(top_skills[i]))
       IN /\ \E i \in Tracked(top_skills) :
                /\ Get(call.args.result) = strip(top_skills[i])
                /\ \A j \in Tracked(top_skills) : Count(i) <= Count(j)
                /\ \A j \in Tracked(top_skills) : j < i => Count(j) > Count(i)
          /\ \A other \in CoverageMaps(top_skills) :
                (\A i \in Tracked(top_skills) :
                    CountOf(other, strip(top_skills[i])) = Count(i))
                => pick_next_focus_skill(top_skills, other) = call.args.result

\* The second tracked skill was picked: it has a smaller count than the
\* first, and the map has an entry for an untracked skill.
C13_Witness ==
    /\ call.op = "pick_next_focus_skill"
    /\ session_top_skills = << Python, << " ", "p", "y", " " >>, << >>, Sql >>
    /\ call.args.result = Some(Sql)
    /\ << "x" >> \in DOMAIN call.args.value
    /\ Sql \notin DOMAIN call.args.value

\* C14 (as stated): compute_skill_coverage returns one entry per distinct
\* canonical form of the non-blank skills, and every count is at least 0 and
\* at most the number of turns in the transcript.
C14_OneEntryPerSkillCountsWithinTurns ==
    call.op = "compute_skill_coverage"
    => LET top_skills == session_top_skills
           coverage == call.args.result
       IN /\ Cardinality(DOMAIN coverage)
               = Cardinality({ _normalize_token(top_skills[i]) :
                                 i \in { j \in 1..Len(top_skills) :
                                            strip(top_skills[j]) /= << >> } })
          /\ \A skill \in DOMAIN coverage :
                coverage[skill] >= 0 /\ coverage[skill] <= Len(call.args.value)

\* The turns of a transcript whose question carries a tag that equals the
\* skill under canonicalization.
TurnsTagged(transcript, skill) ==
    { t \in 1..Len(transcript) :
        \E i \in 1..Len(transcript[t].question.tags) :
            _normalize_token(transcript[t].question.tags[i]) = _normalize_token(skill) }

\* C15 (as stated): each count equals the number of transcript turns whose
\* question carries a tag that equals the skill under canonicalization.
C15_CountIsNumberOfTaggedTurns ==
    call.op = "compute_skill_coverage"
    => \A skill \in DOMAIN call.args.result :
          call.args.result[skill] = Cardinality(TurnsTagged(call.args.value, skill))

\* C16: the keys of the coverage map are the trimmed first-seen spellings
\* of the tracked skills, one per canonical form, blank entries dropped;
\* the map is empty exactly when top_skills has no non-blank entry.
C16_KeysAreFirstSeenSpellings ==
    call.op = "compute_skill_coverage"
    => LET top_skills == session_top_skills
           coverage == call.args.result
       IN /\ DOMAIN coverage = { strip(top_skills[i]) : i \in Tracked(top_skills) }
          /\ \A a, b \in DOMAIN coverage :
                _normalize_token(a) = _normalize_token(b) => a = b
          /\ DOMAIN coverage = {}
             <=> \A i \in 1..Len(top_skills) : strip(top_skills[i]) = << >>

\* Coverage was computed for a list with a blank entry and two spellings of
\* one skill.
C16_Witness ==
    /\ call.op = "compute_skill_coverage"
    /\ session_top_skills = << Python, << " ", "p", "y", " " >>, << >>, Sql >>
    /\ DOMAIN call.args.result = { Python, Sql }
    /\ Len(call.args.value) >= 1

\* C17: pick_next_focus_skill returns None exactly when top_skills has no
\* non-blank entry, and otherwise a tracked skill, whatever entries the
\* coverage map has.
C17_NoneIffNoSkill ==
    call.op = "pick_next_focus_skill"
    => LET top_skills == session_top_skills
       IN /\ call.args.result = None
             <=> \A i \in 1..Len(top_skills) : strip(top_skills[i]) = << >>
          /\ call.args.result /= None
             => \E i \in Tracked(top_skills) :
                   Get(call.args.result) = strip(top_skills[i])

\* A skill was picked from an empty coverage map, and None was returned for
\* a list of blank entries.
C17_Witness ==
    /\ call.op = "pick_next_focus_skill"
    /\ \/ /\ DOMAIN call.args.value = {}
          /\ call.args.result = Some(<< "S", " ", "q" >>)
       \/ /\ session_top_skills = << << >>, << " " >> >>
          /\ call.args.result = None

\* C18: _normalize_token applied to its own result returns that result.
C18_NormalizeIdempotent ==
    call.op = "_normalize_token"
    => _normalize_token(call.args.result) = call.args.result

\* A string with outer whitespace, an upper-case letter and an inner run of
\* whitespace was normalized.
C18_Witness ==
    /\ call.op = "_normalize_token"
    /\ Len(call.args.value) = MaxLen
    /\ call.args.result = << "p", " ", "y" >>
    /\ call.args.value /= call.args.result

(***************************************************************************)
(* Properties of the orchestrator.                                         *)
(***************************************************************************)
\* C2 (as stated): whichever external call ends a start, submit or skip
\* action, the session state after the failed action is identical to the
\* session state before it.
C2_FailedActionKeepsSessionState ==
    /\ StartEnabled
       => \A llm_question \in LlmQuestions, fail \in StartFailures :
            LET c == StartHandler(state, db, session_top_skills, llm_question, fail)
            IN c.raised /= "none" => c.state = state
    /\ TruthyDict(state.current_question)
       => /\ \A inp \in SubmitInputs, llm_question \in LlmQuestions,
                fail \in SubmitFailures :
                LET c == SubmitHandler(state, db, session_top_skills, inp,
                                       llm_question, fail)
                IN c.raised /= "none" => c.state = state
          /\ \A llm_question \in LlmQuestions, fail \in SkipFailures :
                LET c == SkipHandler(state, db, session_top_skills, llm_question, fail)
                IN c.raised /= "none" => c.state = state

\* current_question_id is set only while a question is live.
IdImpliesQuestion(s) == s.current_question_id /= None => s.current_question /= None

\* C5: in every state the orchestrator reaches, and after any further
\* start_interview, submit_answer, skip_question or reset_interview call
\* from such a state, current_question_id is never set while
\* current_question is absent.
C5_IdOnlyWithLiveQuestion ==
    /\ IdImpliesQuestion(state)
    /\ \A q \in Questions, key \in QuestionKeys :
          IdImpliesQuestion(start_interview(state, q, key.id, key.order).state)
    /\ \A arg \in SubmitArgs, nq \in OptQuestions :
          IdImpliesQuestion(submit_answer(state, arg.answer, arg.scorecard, nq,
                                          arg.fallacy_hint).state)
    /\ \A nq \in OptQuestions : IdImpliesQuestion(skip_question(state, nq).state)
    /\ IdImpliesQuestion(reset_interview(state).state)

\* A next question holding the id the orchestrator wrote after a turn.
C5_Witness ==
    /\ Len(state.transcript) >= 1
    /\ state.current_question /= None
    /\ state.current_question_id /= None

\* The state-machine transitions and the persistence calls, by name.
Transitions == { "start_interview", "submit_answer", "skip_question" }

Persistence == { "create_question", "insert_answer", "insert_suggestion" }

\* In the calls a handler issued, the only transition is `op`, it is the
\* last call, and it is there exactly when the handler completed.
TransitionClosesTrace(c, op) ==
    /\ \A i \in 1..Len(c.trace) :
          c.trace[i] \in Transitions => i = Len(c.trace) /\ c.trace[i] = op
    /\ c.raised = "none" <=> (c.trace /= << >> /\ Last(c.trace) = op)

InStatedOrder(trace) ==
    \A i, j \in 1..Len(trace) :
        LET Rank(name) == CASE name = "evaluate_interview_answer" -> 1
                            [] name = "judge_answer_for_fallacies" -> 2
                            [] name = "generate_interview_question" -> 3
                            [] name \in Persistence -> 4
                            [] name \in Transitions -> 5
                            [] OTHER -> 0
        IN i < j => Rank(trace[i]) <= Rank(trace[j])

\* C20 (as stated): within one submit and within one skip action the calls
\* are issued in the order scorecard, fallacy judgment, next-question
\* generation, persistence, state transition; no persistence call is issued
\* before the next question has been generated.
C20_CallsInStatedOrder ==
    TruthyDict(state.current_question)
    => /\ \A inp \in SubmitInputs, llm_question \in LlmQuestions,
             fail \in SubmitFailures :
             InStatedOrder(SubmitHandler(state, db, session_top_skills, inp,
                                         llm_question, fail).trace)
       /\ \A llm_question \in LlmQuestions, fail \in SkipFailures :
             InStatedOrder(SkipHandler(state, db, session_top_skills,
                                       llm_question, fail).trace)

\* A handler that was stopped by the safety check issued no call but
\* check_user_text and left the session state and the rows as they were.
StoppedBeforeAnyCall(c) ==
    /\ c.raised = "RuntimeError"
    /\ c.state = state
    /\ c.db = db
    /\ \A i \in 1..Len(c.trace) : c.trace[i] = "check_user_text"

\* C21: when the safety check rejects the answer or the job description
\* during submit, or the job description during skip, the action stops
\* before any evaluation, generation or persistence call and the session
\* state is what it was before the action.
C21_RejectedTextStopsAction ==
    TruthyDict(state.current_question)
    => /\ \A inp \in RunInputs, llm_question \in LlmQuestions,
             fail \in { "answer_blocked", "job_description_blocked" } :
             StoppedBeforeAnyCall(SubmitHandler(state, db, session_top_skills, inp,
                                                llm_question, fail))
       /\ \A llm_question \in LlmQuestions :
             StoppedBeforeAnyCall(SkipHandler(state, db, session_top_skills,
                                              llm_question, "job_description_blocked"))

\* A question with a durable id is live after a recorded turn: a rejected
\* submit or skip has a transcript, an id and caches to leave alone.
C21_Witness ==
    /\ TruthyDict(state.current_question)
    /\ state.current_question_id /= None
    /\ state.last_scorecard /= None
    /\ Len(state.transcript) >= 1
    /\ SkipHandler(state, db, session_top_skills, CHOOSE q \in LlmQuestions : TRUE,
                   "job_description_blocked").raised = "RuntimeError"

\* C22: a submit whose fallacy judge raises while every other call succeeds
\* completes: the transcript gains one answered turn that carries the
\* scorecard, and the turn's fallacy hint has hint level none, no possible
\* fallacies and the uncertainty disclaimer as its more-info text.
C22_JudgeFailureAbsorbed ==
    TruthyDict(state.current_question)
    => \A inp \in { i \in RunInputs : i.judged = None }, llm_question \in LlmQuestions :
          LET c == SubmitHandler(state, db, session_top_skills, inp, llm_question, "none")
              turn == Last(c.state.transcript)
          IN /\ c.raised = "none"
             /\ Front(c.state.transcript) = state.transcript
             /\ ~turn.is_skipped
             /\ turn.answer = inp.answer
             /\ turn.scorecard = Some(inp.scorecard)
             /\ turn.fallacy_hint = Some([ hint_level |-> "none",
                                           possible_fallacies |-> << >>,
                                           more_info_text |-> UNCERTAINTY_DISCLAIMER ])
             /\ c.state.last_fallacy_hint = turn.fallacy_hint

\* A submit whose judge raised was recorded behind one whose judge answered,
\* in a session that persists its turns.
C22_Witness ==
    /\ Len(state.transcript) = 2
    /\ state.user_vacancy_id /= None
    /\ Get(state.transcript[1].fallacy_hint).hint_level = "light"
    /\ Get(state.transcript[2].fallacy_hint).hint_level = "none"
    /\ state.transcript[2].scorecard /= None
    /\ Len(db.suggestions) = 2

\* C23: every question produced for a turn with a non-blank focus skill
\* has the focus skill, spelled as it was picked, among its tags.
C23_FocusSkillVerbatimInTags ==
    StartEnabled
    => \A llm_question \in LlmQuestions :
          LET focus_skill == pick_next_focus_skill(
                                 session_top_skills,
                                 compute_skill_coverage(session_top_skills,
                                                        state.transcript))
              c == StartHandler(state, db, session_top_skills, llm_question, "none")
              tags == Get(c.state.current_question).tags
          IN (focus_skill /= None /\ strip(Get(focus_skill)) /= << >>)
             => \E i \in 1..Len(tags) : tags[i] = Get(focus_skill)

\* The focus skill picked from the coverage of a transcript.
FocusOver(transcript) ==
    pick_next_focus_skill(session_top_skills,
                          compute_skill_coverage(session_top_skills, transcript))

\* The handler closed the live question into one more turn and the next
\* question is the one generated for the focus skill picked over the
\* transcript that ends with that turn.
NextFocusCountsClosedTurn(c, llm_question) ==
    c.raised = "none"
    => /\ Len(c.state.transcript) = Len(state.transcript) + 1
       /\ Front(c.state.transcript) = state.transcript
       /\ Last(c.state.transcript).question = Get(state.current_question)
       /\ c.state.current_question
             = Some(generate_interview_question(llm_question,
                                                FocusOver(c.state.transcript)))

\* C24: on submit and on skip the focus skill of the next question is
\* picked from the coverage of the stored transcript extended with the turn
\* being closed, so the tags of the question just answered or skipped are
\* already counted.
C24_NextFocusCountsClosedTurn ==
    TruthyDict(state.current_question)
    => \A llm_question \in LlmQuestions :
          /\ \A inp \in SubmitInputs :
                NextFocusCountsClosedTurn(
                    SubmitHandler(state, db, session_top_skills, inp, llm_question,
                                  "none"), llm_question)
          /\ NextFocusCountsClosedTurn(
                 SkipHandler(state, db, session_top_skills, llm_question, "none"),
                 llm_question)

\* The turn just closed changed the pick: without it the focus would be the
\* first skill again, with it the focus moved on to the second one, which
\* the backstop appended to the live question's tags.
C24_Witness ==
    /\ Len(state.transcript) >= 1
    /\ TruthyDict(state.current_question)
    /\ FocusOver(Front(state.transcript)) = Some(Python)
    /\ FocusOver(state.transcript) = Some(Sql)
    /\ Get(state.current_question).tags = << python, Sql >>

(***************************************************************************)
(* Properties of the persistence layer.                                    *)
(***************************************************************************)
\* Arguments of an insert_answer call: a text (or none) and the skip mark.
AnswerArgs ==
    { [ answer_text |-> t, is_skipped |-> b ] :
        t \in { None, Some(""), Some("A1"), Some("A2") }, b \in BOOLEAN }

\* Those that pass the validation of insert_answer.
ValidAnswerArgs ==
    { a \in AnswerArgs :
        a.is_skipped \/ (a.answer_text /= None /\ ~IsBlank(Get(a.answer_text))) }

\* Arguments of an insert_suggestion call.
SuggestionArgs ==
    { [ correctness |-> c, role_relevance |-> r, fallacy_detected |-> f ] :
        c \in { 20, 100 }, r \in { 20, 60 }, f \in BOOLEAN }

\* No two rows of the table are rows of the same question.
OneRowPerQuestion(rows) ==
    \A i, j \in 1..Len(rows) : rows[i].question_id = rows[j].question_id => i = j

\* An insert_suggestion call for the question of row i returns that row's
\* id and leaves every table as it is.
SuggestionInsertIsNoOp(i, a) ==
    insert_suggestion(db, db.suggestions[i].question_id, a.correctness,
                      a.role_relevance, a.fallacy_detected) = DbResult(db, i)

\* C25 as stated: a second insert_answer or insert_suggestion for a question
\* that already has a row returns the existing row's id and changes nothing,
\* whatever its arguments are, and no question has two answer rows or two
\* suggestion rows.
C25_SecondInsertReturnsExisting ==
    /\ \A i \in 1..Len(db.answers), a \in AnswerArgs :
          insert_answer(db, db.answers[i].question_id, a.answer_text, a.is_skipped)
              = DbResult(db, i)
    /\ \A i \in 1..Len(db.suggestions), a \in SuggestionArgs :
          SuggestionInsertIsNoOp(i, a)
    /\ OneRowPerQuestion(db.answers)
    /\ OneRowPerQuestion(db.suggestions)

\* C25 amended: a second insert_answer whose arguments pass validation, and
\* any second insert_suggestion, returns the existing row's id and changes
\* nothing, even when the arguments differ from the stored row; a second
\* insert_answer that is not skipped and has no text raises ValueError and
\* changes nothing; no question has two answer rows or two suggestion rows.
C25_SecondValidInsertReturnsExisting ==
    /\ \A i \in 1..Len(db.answers), a \in AnswerArgs :
          LET r == insert_answer(db, db.answers[i].question_id, a.answer_text,
                                 a.is_skipped)
          IN IF a \in ValidAnswerArgs
             THEN r = DbResult(db, i)
             ELSE r = DbRaised(db, "ValueError")
    /\ \A i \in 1..Len(db.suggestions), a \in SuggestionArgs :
          SuggestionInsertIsNoOp(i, a)
    /\ OneRowPerQuestion(db.answers)
    /\ OneRowPerQuestion(db.suggestions)

\* A skipped and an answered question are stored with a suggestion row, so
\* second calls exist whose arguments differ from the stored rows.
C25_Witness ==
    /\ \E i, j \in 1..Len(db.answers) :
          /\ db.answers[i].is_skipped
          /\ ~db.answers[j].is_skipped
          /\ insert_answer(db, db.answers[i].question_id, Some("A1"), FALSE).id = i
          /\ insert_answer(db, db.answers[j].question_id, None, TRUE).id = j
    /\ \E i \in 1..Len(db.suggestions), a \in SuggestionArgs :
          /\ a.correctness /= db.suggestions[i].correctness
          /\ SuggestionInsertIsNoOp(i, a)

\* What the generator can hand to create_question for one key: the
\* questions of the model, which differ in text and tags.
StoredQuestions == Questions \cup LlmQuestions

\* Keys of a session in the model: the link ids in use and one more, and
\* the question orders an interview reaches.
UserVacancyIds == 1..(Len(db.user_vacancies) + 1)

QuestionOrders == 1..(MaxTurns + 2)

\* Rows of questions with the key (user_vacancy_id, question_order).
QuestionRows(d, user_vacancy_id, question_order) ==
    { i \in 1..Len(d.questions) :
        /\ d.questions[i].user_vacancy_id = user_vacancy_id
        /\ d.questions[i].question_order = question_order }

\* Rows of user_vacancies with the key (user_id, vacancy_id).
LinkRows(d, user_id, vacancy_id) ==
    { i \in 1..Len(d.user_vacancies) :
        /\ d.user_vacancies[i].user_id = user_id
        /\ d.user_vacancies[i].vacancy_id = vacancy_id }

\* C26: repeated create_question calls with the same (user_vacancy_id,
\* question_order), and repeated link_user_vacancy calls with the same
\* (user_id, vacancy_id), return the same id and leave one row for the key,
\* whether or not the key had a row before the first call.
C26_RepeatedCreateReturnsSameId ==
    /\ \A uv \in UserVacancyIds, order \in QuestionOrders,
          q1 \in StoredQuestions, q2 \in StoredQuestions :
          LET first == create_question(db, uv, q1, order)
              second == create_question(first.db, uv, q2, order)
          IN /\ Cardinality(QuestionRows(db, uv, order)) <= 1
             /\ first.raised = "none" /\ second.raised = "none"
             /\ QuestionRows(db, uv, order) /= {}
                   => QuestionRows(db, uv, order) = { first.id }
             /\ second.id = first.id
             /\ QuestionRows(second.db, uv, order) = { first.id }
             /\ Len(second.db.questions) = Len(first.db.questions)
    /\ \A user_id \in { UserId, UserId + 1 }, vacancy_id \in 1..(Len(db.vacancies) + 1) :
          LET first == link_user_vacancy(db, user_id, vacancy_id)
              second == link_user_vacancy(first.db, user_id, vacancy_id)
          IN /\ Cardinality(LinkRows(db, user_id, vacancy_id)) <= 1
             /\ LinkRows(db, user_id, vacancy_id) /= {}
                   => LinkRows(db, user_id, vacancy_id) = { first.id }
             /\ second = DbResult(first.db, first.id)
             /\ LinkRows(second.db, user_id, vacancy_id) = { first.id }

\* A session is linked and holds the rows of several question orders, one
\* of which a repeated call with another question would rewrite in place.
C26_Witness ==
    /\ Len(db.user_vacancies) >= 1
    /\ Len(db.questions) >= 2
    /\ \E i \in 1..Len(db.questions), q \in StoredQuestions :
          LET r == create_question(db, db.questions[i].user_vacancy_id, q,
                                   db.questions[i].question_order)
          IN r.id = i /\ r.db /= db /\ Len(r.db.questions) = Len(db.questions)

\* The persistence steps of submit and of skip at which a call can raise.
SubmitPersistenceSteps ==
    { "create_question", "insert_answer", "insert_suggestion", "create_next_question" }

SkipPersistenceSteps == { "create_question", "insert_answer", "create_next_question" }

\* No key of the questions, answers and suggestions tables has two rows.
NoDuplicateRows(d) ==
    /\ \A i, j \in 1..Len(d.questions) :
          (/\ d.questions[i].user_vacancy_id = d.questions[j].user_vacancy_id
           /\ d.questions[i].question_order = d.questions[j].question_order) => i = j
    /\ OneRowPerQuestion(d.answers)
    /\ OneRowPerQuestion(d.suggestions)

\* The repeat `again` of the aborted action `aborted` completed, recorded
\* one turn on top of the transcript held before the first attempt and left
\* the rows a single successful attempt `straight` leaves.
RetryCompletes(aborted, again, straight) ==
    aborted.raised /= "none"
    => /\ aborted.state.transcript = state.transcript
       /\ again.raised = "none"
       /\ Len(again.state.transcript) = Len(state.transcript) + 1
       /\ Front(again.state.transcript) = state.transcript
       /\ NoDuplicateRows(again.db)
       /\ Len(again.db.questions) = Len(straight.db.questions)
       /\ Len(again.db.answers) = Len(straight.db.answers)
       /\ Len(again.db.suggestions) = Len(straight.db.suggestions)

\* C27: when a submit or a skip aborts at one of its persistence steps and
\* the action is repeated, the repeat completes without error, the session
\* advances by exactly one turn and no question, answer or suggestion row
\* is duplicated.
C27_RetriedTurnIsSafe ==
    TruthyDict(state.current_question)
    => \A llm_question \in LlmQuestions :
          /\ \A inp1 \in RunInputs, inp2 \in SubmitInputs, fail \in SubmitPersistenceSteps :
                LET aborted == SubmitHandler(state, db, session_top_skills, inp1,
                                             llm_question, fail)
                    again == SubmitHandler(aborted.state, aborted.db, session_top_skills,
                                           inp2, llm_question, "none")
                    straight == SubmitHandler(state, db, session_top_skills, inp2,
                                              llm_question, "none")
                IN RetryCompletes(aborted, again, straight)
          /\ \A fail \in SkipPersistenceSteps :
                LET aborted == SkipHandler(state, db, session_top_skills, llm_question,
                                           fail)
                    again == SkipHandler(aborted.state, aborted.db, session_top_skills,
                                         llm_question, "none")
                    straight == SkipHandler(state, db, session_top_skills, llm_question,
                                            "none")
                IN RetryCompletes(aborted, again, straight)

\* A submit was aborted between its answer row and its suggestion row: the
\* live question has a stored answer and no suggestion, and the repeated
\* submit completes without a second answer row.
C27_Witness ==
    /\ TruthyDict(state.current_question)
    /\ state.current_question_id /= None
    /\ \E i \in 1..Len(db.answers) :
          /\ db.answers[i].question_id = Get(state.current_question_id)
          /\ ~db.answers[i].is_skipped
    /\ \A i \in 1..Len(db.suggestions) :
          db.suggestions[i].question_id /= Get(state.current_question_id)
    /\ \E inp \in SubmitInputs, llm_question \in LlmQuestions :
          LET again == SubmitHandler(state, db, session_top_skills, inp, llm_question,
                                     "none")
          IN /\ again.raised = "none"
             /\ Len(again.db.answers) = Len(db.answers)
             /\ Len(again.db.suggestions) = Len(db.suggestions) + 1

(***************************************************************************)
(* Properties of the fallacy hints.                                        *)
(***************************************************************************)
\* The fallacy hints held in session state.
HeldHints ==
    { Get(h) : h \in ({ state.last_fallacy_hint }
                      \cup { state.transcript[i].fallacy_hint :
                               i \in { j \in 1..Len(state.transcript) :
                                         "fallacy_hint" \in DOMAIN state.transcript[j] } })
                     \ { None } }

\* C28: every fallacy hint held in session state (last_fallacy_hint and the
\* fallacy_hint of every transcript turn that has one) has a more-info text
\* that contains the uncertainty disclaimer, and no FallacyHint whose
\* more-info text lacks the disclaimer can be constructed.
C28_HintsCarryDisclaimer ==
    /\ \A hint \in HeldHints : IncludesDisclaimer(hint.more_info_text)
    /\ \A fields \in HintFields :
          FallacyHint(fields).raised = "none"
          => IncludesDisclaimer(Get(FallacyHint(fields).value).more_info_text)

(***************************************************************************)
(* Properties of the safety check.                                         *)
(***************************************************************************)
\* C29: check_user_text returns a rejection with an empty safe text
\* whenever the normalized input is empty or the moderation client
\* disallows it; whenever it returns allowed, the safe text is non-empty and
\* at most max_chars characters long.
C29_RejectsEmptyAndDisallowedBoundsAllowed ==
    call.op = "check_user_text"
    => LET args == call.args.value
           result == call.args.result
       IN /\ (_normalize(args.text) = << >> \/ args.moderation_client = Some(FALSE))
             => (~result.allowed /\ result.safe_text = << >>)
          /\ result.allowed
             => (/\ result.safe_text /= << >>
                 /\ Len(result.safe_text) <= args.max_chars)

\* A text with a NUL character, longer than max_chars after normalization,
\* was allowed by a moderation client and cut.
C29_Witness ==
    /\ call.op = "check_user_text"
    /\ call.args.value.moderation_client = Some(TRUE)
    /\ call.args.value.text = << "a", "NUL", "b" >>
    /\ call.args.value.max_chars = 1
    /\ call.args.result.allowed
    /\ call.args.result.truncated
    /\ call.args.result.safe_text = << "a" >>

(***************************************************************************)
(* Properties of the analytics.                                            *)
(***************************************************************************)
\* The question rows of a session.
SessionQuestions(user_vacancy_id) ==
    { i \in 1..Len(db.questions) : db.questions[i].user_vacancy_id = user_vacancy_id }

\* The question has an answer row that is marked skipped.
HasSkippedAnswer(question_id) ==
    \E i \in 1..Len(db.answers) :
        db.answers[i].question_id = question_id /\ db.answers[i].is_skipped

\* The question has a suggestion row.
HasSuggestion(question_id) ==
    \E i \in 1..Len(db.suggestions) : db.suggestions[i].question_id = question_id

\* The question has an answer row.
HasAnswer(question_id) ==
    \E i \in 1..Len(db.answers) : db.answers[i].question_id = question_id

\* C30: for the persisted rows of one session fetch_user_vacancy_analytics
\* reports total_questions as the number of question rows,
\* skipped_questions as the number of questions whose answer row is marked
\* skipped and answered_questions as the number of questions with a
\* suggestion row; a question with neither row counts only in the total.
C30_AnalyticsCountsRows ==
    \A user_vacancy_id \in UserVacancyIds :
        LET summary == fetch_user_vacancy_analytics(db, user_vacancy_id)
            questions == SessionQuestions(user_vacancy_id)
            bare == { q \in questions : ~HasAnswer(q) /\ ~HasSuggestion(q) }
        IN /\ summary.total_questions = Cardinality(questions)
           /\ summary.skipped_questions
                 = Cardinality({ q \in questions : HasSkippedAnswer(q) })
           /\ summary.answered_questions
                 = Cardinality({ q \in questions : HasSuggestion(q) })
           /\ summary.skipped_questions + summary.answered_questions
                 <= 2 * (summary.total_questions - Cardinality(bare))

\* A session holds a skipped question, a scored question and a question
\* with neither row: three questions in total, one skipped, one answered.
C30_Witness ==
    \E user_vacancy_id \in UserVacancyIds :
        LET summary == fetch_user_vacancy_analytics(db, user_vacancy_id)
        IN /\ summary.total_questions = 3
           /\ summary.skipped_questions = 1
           /\ summary.answered_questions = 1
           /\ \E q \in SessionQuestions(user_vacancy_id) :
                 ~HasAnswer(q) /\ ~HasSuggestion(q)

(***************************************************************************)
(* Properties of the transcript's turns.                                   *)
(***************************************************************************)
\* C31: each transcript turn has is_skipped True exactly when its scorecard
\* is absent, and every skipped turn has an empty answer and no fallacy
\* hint.
C31_SkippedIffNoScorecard ==
    \A i \in 1..Len(state.transcript) :
        LET turn == state.transcript[i]
        IN /\ turn.is_skipped <=> (turn.scorecard = None)
           /\ turn.is_skipped => (turn.answer = "" /\ turn.fallacy_hint = None)

\* A skipped turn was recorded behind an answered turn that carries a
\* scorecard and a fallacy hint.
C31_Witness ==
    /\ Len(state.transcript) = 2
    /\ ~state.transcript[1].is_skipped
    /\ state.transcript[1].scorecard /= None
    /\ state.transcript[1].fallacy_hint /= None
    /\ state.transcript[2].is_skipped
    /\ state.transcript[2].scorecard = None

\* C32: whenever last_scorecard is set the transcript is non-empty, its last
\* turn is not skipped, and last_scorecard and last_fallacy_hint equal that
\* turn's scorecard and fallacy hint.
C32_CachesMirrorLastTurn ==
    state.last_scorecard /= None
    => /\ state.transcript /= << >>
       /\ ~Last(state.transcript).is_skipped
       /\ state.last_scorecard = Last(state.transcript).scorecard
       /\ state.last_fallacy_hint = Last(state.transcript).fallacy_hint

\* The caches hold the scorecard and the hint of a second answered turn
\* whose scorecard differs from the first turn's.
C32_Witness ==
    /\ Len(state.transcript) = 2
    /\ state.last_scorecard /= None
    /\ state.last_fallacy_hint /= None
    /\ state.transcript[1].scorecard /= state.last_scorecard
    /\ state.transcript[1].scorecard /= None
    /\ call.op = "submit_answer"

(***************************************************************************)
(* Properties of the interview as the orchestrator runs it.                *)
(***************************************************************************)
\* C33: under the orchestrator the interview never enters the ended state:
\* in every state reached by its start, submit, skip and reset actions,
\* failed ones included, interview_started implies that a question is live.
C33_StartedImpliesLiveQuestion ==
    state.interview_started => TruthyDict(state.current_question)

\* An interview that went through a submit and a skip still has a live
\* question.
C33_Witness ==
    /\ state.interview_started
    /\ TruthyDict(state.current_question)
    /\ Len(state.transcript) = 2
    /\ \E i, j \in 1..2 : state.transcript[i].is_skipped /\ ~state.transcript[j].is_skipped

(***************************************************************************)
(* Properties of call_structured_llm.                                      *)
(***************************************************************************)
\* The attempts of a provider, as positions of the frame's log.
AttemptsOf(provider) ==
    { i \in 1..Len(call.args.log) : call.args.log[i].provider = provider }

\* C34: call_structured_llm makes at most one structured-agent attempt
\* followed by at most two chat-completion attempts and returns the first
\* validated result; the second chat attempt happens only when the first
\* failed with a JSON-parse or schema-validation error, any other error of a
\* chat attempt propagates at once without a retry, and after two such
\* failures the last of these errors is raised.
C34_OneAgentThenAtMostTwoChatAttempts ==
    call.op = "call_structured_llm"
    => LET f == call.args
           log == f.log
           agent == AttemptsOf("pydantic_ai")
           chat == AttemptsOf("openai_chat")
           finished == f.pc = "done"
       IN /\ agent \subseteq { 1 }
          /\ Cardinality(chat) <= 2
          /\ chat /= {} => agent = { 1 }
          /\ \A i \in 1..Len(log) :
                log[i].outcome.kind = "ok"
                => /\ i = Len(log)
                   /\ finished /\ call.raised = "none"
                   /\ f.returned = Some([ type |-> f.result_type,
                                          payload |-> log[i].outcome.payload ])
          /\ f.returned /= None => (log /= << >> /\ Last(log).outcome.kind = "ok")
          /\ \A i \in chat :
                (\E j \in chat : j > i)
                => log[i].outcome.kind \in { "JSONDecodeError", "ValidationError" }
          /\ \A i \in chat :
                log[i].outcome.kind \in { "RuntimeError", "APIError" }
                => /\ i = Len(log)
                   /\ finished /\ call.raised = log[i].outcome.kind
          /\ (finished /\ Cardinality(chat) = 2 /\ Last(log).outcome.kind /= "ok"
                       /\ call.raised = "none") => FALSE
          /\ (finished /\ Cardinality(chat) = 2
                       /\ Last(log).outcome.kind \in { "JSONDecodeError", "ValidationError" })
             => call.raised = Last(log).outcome.kind
          /\ finished => (call.raised = "none" <=> f.returned /= None)

\* The agent failed, the first chat attempt returned JSON that did not
\* parse, the second one JSON that did not validate, and the call raised
\* the validation error.
C34_Witness ==
    /\ call.op = "call_structured_llm"
    /\ call.args.pc = "done"
    /\ Len(call.args.log) = 3
    /\ call.args.log[2].outcome.kind = "JSONDecodeError"
    /\ call.args.log[3].outcome.kind = "ValidationError"
    /\ call.raised = "ValidationError"
    /\ call.args.returned = None

(***************************************************************************)
(* Properties of the uploads.                                              *)
(***************************************************************************)
\* Files a rerun can find in the uploaders: the stored ones and others.
AnyJdFiles == JdFiles \cup { [hash |-> "j2", text |-> "jd-b"] }

AnyCvFiles == CvFiles \cup { [hash |-> "c2", text |-> "cv-b"] }

\* The handler's outcome has another transcript, live question or started
\* flag than the state it ran in.
Wiped(c) ==
    \/ c.state.transcript /= state.transcript
    \/ c.state.current_question /= state.current_question
    \/ c.state.interview_started /= state.interview_started

\* The upload handler issued no call and wrote nothing but the title box.
NotIngested(c, s) ==
    /\ c.trace = << >>
    /\ c.raised = "none"
    /\ c.db = db
    /\ [ c.state EXCEPT !.position_title = s.position_title ] = s

TrackedSkills == unique_skills(session_top_skills)

\* Every tracked skill is counted at least once over the transcript.
AllTrackedCovered ==
    LET coverage == compute_skill_coverage(session_top_skills, state.transcript)
    IN \A i \in 1..Len(TrackedSkills) :
        /\ TrackedSkills[i] \in DOMAIN coverage
        /\ coverage[TrackedSkills[i]] >= 1

\* C36: in a run of a successful start followed by successful submits and
\* skips, with N >= 1 distinct tracked skills, once the transcript holds N
\* turns every tracked skill has coverage at least 1.
C36_EveryTrackedSkillCoveredAfterNTurns ==
    (Len(TrackedSkills) >= 1 /\ Len(state.transcript) >= Len(TrackedSkills))
    => AllTrackedCovered

\* Two tracked skills and two closed turns whose questions the language
\* model left untagged: both skills are covered by the appended focus tags.
C36_Witness ==
    /\ Len(TrackedSkills) = 2
    /\ Len(state.transcript) = 2
    /\ \A i \in 1..2 : Len(state.transcript[i].question.tags) = 1
    /\ AllTrackedCovered

(***************************************************************************)
(* Properties of the persisted answers.                                    *)
(***************************************************************************)
\* The answer row of the question agrees with the turn: the same skipped
\* flag and, for an answered turn, the same answer text.
AnswerRowAgrees(turn) ==
    \E i \in 1..Len(db.answers) :
        /\ db.answers[i].question_id = Get(turn.question_id)
        /\ db.answers[i].is_skipped = turn.is_skipped
        /\ ~turn.is_skipped => db.answers[i].answer_text = Some(turn.answer)

\* C37: after a completed submit or skip whose question has a durable id,
\* the persisted answer row of that id agrees with the turn just appended,
\* whatever failed actions, retries and resets came before.  Answer rows
\* are never updated or deleted, so the turn just appended is the last turn
\* of the transcript in every later state.
C37_AnswerRowAgreesWithAppendedTurn ==
    (state.transcript /= << >> /\ Last(state.transcript).question_id /= None)
    => AnswerRowAgrees(Last(state.transcript))

(***************************************************************************)
(* Properties of the question numbering under the orchestrator.            *)
(***************************************************************************)
\* C38: in every state the orchestrator reaches by start, submit, skip and
\* reset, failed and repeated ones included, a live question's
\* current_question_order is len(transcript) + 1 and each turn's
\* question_order is its 1-based position in the transcript.
C38_OrchestratorNumbersQuestionsInOrder ==
    /\ TruthyDict(state.current_question)
       => state.current_question_order = Some(Len(state.transcript) + 1)
    /\ OrdersOneToLen(state.transcript)

\* Two closed turns and a live third question on which a submit or skip has
\* already failed after storing its answer row.
C38_Witness ==
    /\ Len(state.transcript) = 2
    /\ OrdersOneToLen(state.transcript)
    /\ TruthyDict(state.current_question)
    /\ state.current_question_order = Some(3)
    /\ state.current_question_id /= None
    /\ HasAnswer(Get(state.current_question_id))

(***************************************************************************)
(* Properties of coverage as the transcript grows.                         *)
(***************************************************************************)
\* The number of tags of the turn's question that match the skill: equal
\* after _normalize_token.
MatchingTags(skill, turn) ==
    Cardinality({ i \in 1..Len(turn.question.tags) :
                    _normalize_token(turn.question.tags[i]) = _normalize_token(skill) })

C40_PickerSkillsAreCoverageKeys ==
    LET unique == unique_skills(session_top_skills)
        coverage == compute_skill_coverage(session_top_skills, state.transcript)
    IN /\ \A i \in 1..Len(unique) : unique[i] \in DOMAIN coverage
       /\ DOMAIN coverage = { unique[i] : i \in 1..Len(unique) }

\* A list with a respelled duplicate and a blank entry, and a transcript in
\* which a skill the picker considers has a count above the default.
C40_Witness ==
    LET unique == unique_skills(session_top_skills)
        coverage == compute_skill_coverage(session_top_skills, state.transcript)
    IN /\ Len(unique) < Len(session_top_skills)
       /\ Len(unique) >= 2
       /\ \E i \in 1..Len(unique) :
            unique[i] \in DOMAIN coverage /\ coverage[unique[i]] >= 1

====
